---- MODULE Spec2Model ----
(***************************************************************************)
(* Workflow orchestration engine of the support-ticket pipeline            *)
(* (backend/app/services/workflow/orchestrator.py) with the stage          *)
(* contracts it calls: validator, classifier, extractor, generator and     *)
(* router.  One behaviour is one invocation of                             *)
(* WorkflowOrchestrator.execute(); an action is one run of the event loop  *)
(* between two suspension points of the coroutines involved.               *)
(***************************************************************************)
EXTENDS Integers, Sequences, FiniteSets, TLC

VARIABLES
    ticket,      \* TicketInput handed to execute(): [subject, body]
    options,     \* WorkflowOptions handed to execute()
    enable_ai,   \* WorkflowOrchestrator.enable_ai
    ctx,         \* the WorkflowContext of the invocation
    pc,          \* position of the execute() coroutine
    task,        \* position of each stage coroutine
    pending,     \* per stage: what the suspended coroutine resumes with
    escaped,     \* per stage: the exception that left the stage method
    calls,       \* the collaborator calls made so far
    ai_failed,   \* the stages whose AI call raised
    elapsed,     \* seconds of wall-clock time since context creation
    result,      \* what execute() gave its caller
    router,      \* a direct call of TicketRouter.route(): its arguments
                 \* and the decision it returned
    unit         \* a direct use of one stage contract or of the shared
                 \* AIService: what went in and what came back

vars == <<ticket, options, enable_ai, ctx, pc, task, pending, escaped,
          calls, ai_failed, elapsed, result, router, unit>>

(***************************************************************************)
(* Program constants.                                                      *)
(***************************************************************************)
MAX_SUBJECT_LENGTH == 500
MAX_BODY_LENGTH == 50000
WORKFLOW_TIMEOUT_SECONDS == 30
ENABLE_AI_CLASSIFICATION == TRUE
ENABLE_AI_EXTRACTION == TRUE
ENABLE_RESPONSE_GENERATION == TRUE

\* Python's None, for record-valued and for string-valued optionals.
None == [none |-> TRUE]
NoneStr == "None"

(***************************************************************************)
(* Text.  A string is a sequence of characters over a four-letter          *)
(* alphabet: "x" a printable character, "_" a space, "T" a tab and "0" a   *)
(* control character (NUL).                                                *)
(***************************************************************************)
\* The element of a one-element set.  The({ e(v) : v \in {d} }) computes d
\* once and then e from its value.
The(S) == CHOOSE x \in S : TRUE

\* list.index
IndexIn(seq, x) == CHOOSE i \in 1..Len(seq) : seq[i] = x /\ \A j \in 1..(i - 1) : seq[j] # x

Max2(a, b) == IF a >= b THEN a ELSE b
Min2(a, b) == IF a <= b THEN a ELSE b

IsSpace(ch) == ch \in {"_", "T"}
IsControl(ch) == ch = "0"

\* The positions of s that hold no whitespace, in order.
Inked(s) == SelectSeq([i \in 1..Len(s) |-> i], LAMBDA i : ~IsSpace(s[i]))

\* str.strip()
Strip(s) ==
    The({ IF inked = <<>> THEN <<>>
          ELSE SubSeq(s, inked[1], inked[Len(inked)]) :
          inked \in {Inked(s)} })

\* re.sub(r"[\x00-\x08\x0b\x0c\x0e-\x1f\x7f-\x9f]", "", text)
RemoveControl(s) == SelectSeq(s, LAMBDA ch : ~IsControl(ch))

\* re.sub(r"\s+", " ", text): every run of whitespace becomes one space
CollapseSpace(s) ==
    The({ [k \in 1..Len(heads) |->
             IF IsSpace(s[heads[k]]) THEN "_" ELSE s[heads[k]]] :
          heads \in { SelectSeq([i \in 1..Len(s) |-> i],
                                LAMBDA i : ~IsSpace(s[i]) \/ i = 1
                                           \/ ~IsSpace(s[i - 1])) } })

\* InputValidator._sanitize_text
SanitizeText(text) ==
    IF text = <<>> THEN <<>>
    ELSE The({ Strip(collapsed) :
                 collapsed \in { CollapseSpace(cleaned) :
                                   cleaned \in {RemoveControl(text)} } })

\* A text of n printable characters.
Printable(n) == [i \in 1..n |-> "x"]

(***************************************************************************)
(* Inputs of one invocation.                                               *)
(***************************************************************************)
\* "x \tx" is sanitized to "x x"; "\0" is not blank and is sanitized to "".
ValidTexts == { <<"x", "_", "T", "x">> }
BlankTexts == { <<>>, <<"_", "T">> }
Subjects == ValidTexts \cup BlankTexts \cup {Printable(MAX_SUBJECT_LENGTH + 1)}
Bodies == { <<"0">>, <<"_">> }

Tickets == [subject : Subjects, body : Bodies]

Tones == {"friendly", "formal"}

WorkflowOptions ==
    [skip_classification : BOOLEAN, skip_extraction : BOOLEAN,
     skip_response : BOOLEAN, skip_routing : BOOLEAN,
     response_tone : Tones,
     enable_duplicate_detection : BOOLEAN, enable_parallel : BOOLEAN]

(***************************************************************************)
(* Validator.                                                              *)
(***************************************************************************)
\* IsEmptyText without the strip() test: only "" counts as empty.
IsEmptyText_no_strip(text) == text = <<>>

\* `not text or not text.strip()`
IsEmptyText(text) == text = <<>> \/ Strip(text) = <<>>

SubjectErrors(t) ==
    IF IsEmptyText(t.subject) THEN <<"Subject cannot be empty">>
    ELSE IF Len(t.subject) > MAX_SUBJECT_LENGTH
         THEN <<"Subject exceeds maximum length of 500">>
         ELSE <<>>

BodyErrors(t) ==
    IF IsEmptyText(t.body) THEN <<"Body cannot be empty">>
    ELSE IF Len(t.body) > MAX_BODY_LENGTH
         THEN <<"Body exceeds maximum length of 50000">>
         ELSE <<>>

\* InputValidator.validate
Validate(t) ==
    LET errs == SubjectErrors(t) \o BodyErrors(t)
    IN [is_valid |-> errs = <<>>,
        errors |-> errs,
        sanitized_subject |-> SanitizeText(t.subject),
        sanitized_body |-> SanitizeText(t.body)]

\* "; ".join(errors)
RECURSIVE JoinErrors(_)
JoinErrors(errs) ==
    IF errs = <<>> THEN ""
    ELSE IF Len(errs) = 1 THEN errs[1]
         ELSE errs[1] \o "; " \o JoinErrors(Tail(errs))

\* `a or b` on strings
OrText(a, b) == IF a # <<>> THEN a ELSE b

(***************************************************************************)
(* Context and step bookkeeping.                                           *)
(***************************************************************************)
\* WorkflowContext(ticket=ticket, options=options)
NewContext ==
    [sanitized_ticket |-> None,
     classification |-> None,
     extraction |-> None,
     response |-> None,
     routing |-> None,
     duplicate_of |-> None,
     similarity_score |-> None,
     steps |-> <<>>,
     errors |-> {}]

\* _add_step_result if it inserted the record at the head of the list.
AddStepResult_prepend(c, step_name, status, error, fallback_used) ==
    [c EXCEPT !.steps = <<[step_name |-> step_name,
                           status |-> status,
                           error |-> error,
                           fallback_used |-> fallback_used]>> \o @]

\* WorkflowOrchestrator._add_step_result: context.steps.append(...)
AddStepResult(c, step_name, status, error, fallback_used) ==
    [c EXCEPT !.steps = Append(@, [step_name |-> step_name,
                                   status |-> status,
                                   error |-> error,
                                   fallback_used |-> fallback_used])]

StepNames(steps) == { steps[i].step_name : i \in 1..Len(steps) }

\* Exceptions: the class that decides which handler catches it, and str(e).
Exc(cls, msg) == [cls |-> cls, msg |-> msg]
NoExc == [cls |-> "none", msg |-> ""]

\* WorkflowOrchestrator._execute_validation; raised is the exception of
\* validator.validate, NoExc if it returned.
ExecuteValidation(c, t, raised) ==
    IF raised # NoExc
    THEN AddStepResult([c EXCEPT !.errors = @ \cup {raised.msg}],
                       "validation", "failed", raised.msg, FALSE)
    ELSE The({ IF r.is_valid
               THEN AddStepResult(
                       [c EXCEPT !.sanitized_ticket =
                           [subject |-> OrText(r.sanitized_subject, t.subject),
                            body |-> OrText(r.sanitized_body, t.body)]],
                       "validation", "completed", NoneStr, FALSE)
               ELSE AddStepResult(
                       [c EXCEPT !.errors =
                           @ \cup { r.errors[i] : i \in 1..Len(r.errors) }],
                       "validation", "failed", JoinErrors(r.errors), FALSE) :
               r \in {Validate(t)} })

\* ValidationFailed with the `not` dropped.
ValidationFailed_inverted(c) == c.errors # {} /\ c.sanitized_ticket # None

\* `if context.errors and not context.sanitized_ticket` (execute)
ValidationFailed(c) == c.errors # {} /\ c.sanitized_ticket = None

(***************************************************************************)
(* Collaborators.  What a call of the AI service or of a rule-based path   *)
(* yields is the environment's choice: a value, or an exception.           *)
(***************************************************************************)
Outcome(value, exc) == [value |-> value, exc |-> exc]
Raises(o) == o.exc # NoExc

\* Exceptions the AI service raises, those the rule-based code of a stage
\* raises in the stage's primary call, and those it raises in the fallback
\* call the orchestrator makes after that.
AIErrors == { Exc("Exception", "AI failed") }
PrimaryErrors == { Exc("Exception", "stage failed") }
StageErrors == { Exc("Exception", "fallback failed"), Exc("TimeoutError", "") }
ValidatorErrors == { Exc("Exception", "validator failed") }

\* Categories and severities the collaborators answer with in the model:
\* a subset of VALID_CATEGORIES and VALID_SEVERITIES.
VALID_CATEGORIES ==
    <<"technical", "billing", "account", "feature_request", "bug_report",
      "general">>
VALID_SEVERITIES == <<"critical", "high", "medium", "low">>
AIAnswers == { <<"billing", "high">> }
RuleAnswers == { <<"technical", "critical">>, <<"general", "medium">> }

\* settings.AI_CONFIDENCE_THRESHOLD, in hundredths
AI_CONFIDENCE_THRESHOLD == 60

\* SEVERITY_INDICATORS, the built-in table (no severities.yaml is shipped)
SEVERITY_INDICATORS(severity) ==
    CASE severity = "critical" ->
            <<"urgent", "asap", "critical", "down", "emergency",
              "production", "immediately", "serious">>
      [] severity = "high" ->
            <<"important", "serious", "affecting", "quickly", "soon",
              "priority">>
      [] severity = "medium" -> <<"issue", "problem", "help", "when possible">>
      [] severity = "low" ->
            <<"minor", "small", "suggestion", "curious", "wondering",
              "sometime">>

\* The indicators of a severity that re.search finds in the text; a text is
\* the set of the words and phrases it holds between word boundaries.
MatchedIndicators(severity, text) ==
    SelectSeq(SEVERITY_INDICATORS(severity), LAMBDA ind : ind \in text)

\* min(0.9, 0.4 + (len(matches) / len(indicators)) * 0.5), as a multiple of
\* 1/240: the lists hold 8, 6 and 4 indicators, so every score is an
\* integer number of 240ths and equal scores are equal floats.
SeverityConfidence(severity, text) ==
    Min2(216, 96 + (120 * Len(MatchedIndicators(severity, text)))
                     \div Len(SEVERITY_INDICATORS(severity)))

\* TicketClassifier._match_severity: the scored severities are sorted by
\* (confidence, VALID_SEVERITIES.index(k)) with reverse=True and the first
\* of them is returned.
MatchSeverity(text) ==
    LET scored == { k \in { VALID_SEVERITIES[i] :
                                i \in 1..Len(VALID_SEVERITIES) } :
                      MatchedIndicators(k, text) # <<>> }
        Above(a, b) ==
            \/ SeverityConfidence(a, text) > SeverityConfidence(b, text)
            \/ /\ SeverityConfidence(a, text) = SeverityConfidence(b, text)
               /\ IndexIn(VALID_SEVERITIES, a) > IndexIn(VALID_SEVERITIES, b)
        best_severity == CHOOSE a \in scored :
                            \A b \in scored \ {a} : Above(a, b)
    IN IF scored # {}
       THEN [severity |-> best_severity,
             confidence |-> SeverityConfidence(best_severity, text),
             indicators |-> MatchedIndicators(best_severity, text)]
       ELSE [severity |-> "medium", confidence |-> 120, indicators |-> <<>>]

\* ClassificationResult
Classification(category, category_confidence, severity, severity_confidence, reasoning) ==
    [category |-> category, category_confidence |-> category_confidence,
     severity |-> severity, severity_confidence |-> severity_confidence,
     reasoning |-> reasoning]

\* AIService.classify_ticket as seen by the classifier
AIClassifyOutcomes ==
    { Outcome(Classification(a[1], conf, a[2], 90, "ai"), NoExc) :
        a \in AIAnswers,
        conf \in {AI_CONFIDENCE_THRESHOLD - 10, AI_CONFIDENCE_THRESHOLD} }
    \cup { Outcome(None, e) : e \in AIErrors }

\* TicketClassifier._classify_with_rules, in a call that may raise errors
RuleClassifyOutcomes(errors) ==
    { Outcome(Classification(a[1], 55, a[2], 50, "rules"), NoExc) :
        a \in RuleAnswers }
    \cup { Outcome(None, e) : e \in errors }

\* The AI call was not made.
NotCalled == Outcome(None, Exc("not called", ""))
WasCalled(o) == o.exc.cls # "not called"

\* classify() if it asked both confidences of the AI result to reach the
\* threshold.
Classify_both_confidences(ai, rules) ==
    IF WasCalled(ai) /\ ~Raises(ai)
       /\ ai.value.category_confidence >= AI_CONFIDENCE_THRESHOLD
       /\ ai.value.severity_confidence >= AI_CONFIDENCE_THRESHOLD
    THEN ai
    ELSE rules

\* TicketClassifier.classify once the AI call, if any, is over: ai is the
\* AI call's outcome (NotCalled without AI), rules the outcome of
\* _classify_with_rules should the code reach it.
Classify(ai, rules) ==
    IF WasCalled(ai) /\ ~Raises(ai)
       /\ ai.value.category_confidence >= AI_CONFIDENCE_THRESHOLD
    THEN ai
    ELSE rules

\* `should_use_ai and self.ai_service` of the three AI-backed stages: the
\* orchestrator hands its stages the AI service only when enable_ai is set.
UsesAI(use_ai, orchestrator_ai) == use_ai /\ orchestrator_ai

\* A collaborator call as the stage received it.
Call(stage, text, category, tone, use_ai) ==
    [stage |-> stage, subject |-> text.subject, body |-> text.body,
     category |-> category, tone |-> tone, use_ai |-> use_ai]

\* `context.sanitized_ticket or context.ticket`
TicketOf(c, t) == IF c.sanitized_ticket # None THEN c.sanitized_ticket ELSE t

\* The part of a stage method's run that follows a step of the event loop:
\* the context it leaves, the exception that escapes it (NoExc if none) and
\* the calls it made.
Ran(c, exc, made) == [ctx |-> c, exc |-> exc, calls |-> made]

\* WorkflowOrchestrator._execute_classification from the return of the
\* primary classify() call on.  first is that call's outcome, second the
\* outcome of the fallback call in the except branch.
FinishClassification(c, t, first, second) ==
    IF ~Raises(first)
    THEN Ran(AddStepResult([c EXCEPT !.classification = first.value],
                           "classification", "completed", NoneStr, FALSE),
             NoExc, {})
    ELSE LET fallback == Call("classification", t, NoneStr, NoneStr, FALSE)
         IN IF Raises(second)
            THEN Ran(c, second.exc, {fallback})
            ELSE Ran(AddStepResult(
                        [c EXCEPT !.classification = second.value],
                        "classification", "completed", first.exc.msg, TRUE),
                     NoExc, {fallback})

(***************************************************************************)
(* Extractor.                                                              *)
(***************************************************************************)
\* ExtractedField; confidence in hundredths, via tells the pass that found it
ExtractedField(name, confidence, via) ==
    [name |-> name, confidence |-> confidence, via |-> via]

\* FieldExtractor._extract_with_regex plus the priority-keyword scan
RegexOutcomes(errors) ==
    { Outcome(<<ExtractedField("error_code", 85, "regex")>>, NoExc) }
    \cup { Outcome(<<>>, e) : e \in errors }

\* AIService.extract_fields as seen by the extractor
AIExtractOutcomes ==
    { Outcome(<<ExtractedField("error_code", 95, "ai"),
                ExtractedField("amount", 80, "ai")>>, NoExc) }
    \cup { Outcome(<<>>, e) : e \in AIErrors }

FieldNames(fields) == { fields[i].name : i \in 1..Len(fields) }

\* Position of the first field called name, 0 if there is none.
RECURSIVE IndexOfName(_, _, _)
IndexOfName(fields, name, i) ==
    IF i > Len(fields) THEN 0
    ELSE IF fields[i].name = name THEN i
         ELSE IndexOfName(fields, name, i + 1)

\* `merged[field.name] = field` on an insertion-ordered dict
PutField(merged, field) ==
    LET i == IndexOfName(merged, field.name, 1)
    IN IF i = 0 THEN Append(merged, field)
       ELSE [merged EXCEPT ![i] = field]

RECURSIVE PutAll(_, _)
PutAll(merged, fields) ==
    IF fields = <<>> THEN merged
    ELSE PutAll(PutField(merged, Head(fields)), Tail(fields))

RECURSIVE MergeAI(_, _)
MergeAI(merged, ai_fields) ==
    IF ai_fields = <<>> THEN merged
    ELSE LET f == Head(ai_fields)
             i == IndexOfName(merged, f.name, 1)
         IN MergeAI(IF i = 0 THEN Append(merged, f)
                    ELSE IF f.confidence > merged[i].confidence
                         THEN [merged EXCEPT ![i] = f]
                         ELSE merged,
                    Tail(ai_fields))

\* FieldExtractor._merge_fields
MergeFields(regex_fields, ai_fields) ==
    MergeAI(PutAll(<<>>, regex_fields), ai_fields)

CATEGORY_REQUIRED_FIELDS ==
    [c \in {"technical", "billing", "account", "bug_report",
            "feature_request", "general"} |->
        CASE c = "technical" -> <<"error_code">>
          [] c = "billing" -> <<"order_id", "amount">>
          [] c = "account" -> <<"account_email">>
          [] c = "bug_report" -> <<"error_code">>
          [] OTHER -> <<>>]

\* FieldExtractor._find_missing_required
FindMissingRequired(fields, category) ==
    IF category = NoneStr \/ category \notin DOMAIN CATEGORY_REQUIRED_FIELDS
    THEN <<>>
    ELSE SelectSeq(CATEGORY_REQUIRED_FIELDS[category],
                   LAMBDA f : f \notin FieldNames(fields))

\* ExtractionResult
Extraction(fields, missing_required) ==
    [fields |-> fields, missing_required |-> missing_required]

\* FieldExtractor.extract once the regex pass has returned regex_fields and
\* the AI call, if any, is over.
Extract(regex_fields, ai, category) ==
    LET fields == IF WasCalled(ai) /\ ~Raises(ai)
                  THEN MergeFields(regex_fields, ai.value)
                  ELSE regex_fields
    IN Outcome(Extraction(fields, FindMissingRequired(fields, category)),
               NoExc)

\* CategoryOf if the stages never read the stored classification.
CategoryOf_general(c) == "general"

\* `context.classification.category if context.classification else "general"`
CategoryOf(c) ==
    IF c.classification # None THEN c.classification.category ELSE "general"

\* SeverityOf if the stages always read the fallback's severity.
SeverityOf_medium(c) == "medium"

\* `context.classification.severity if context.classification else "medium"`
SeverityOf(c) ==
    IF c.classification # None THEN c.classification.severity ELSE "medium"

\* WorkflowOrchestrator._execute_extraction from the return of the primary
\* extract() call on; second is the outcome of the fallback call.
FinishExtraction(c, t, first, second) ==
    IF ~Raises(first)
    THEN Ran(AddStepResult([c EXCEPT !.extraction = first.value],
                           "extraction", "completed", NoneStr, FALSE),
             NoExc, {})
    ELSE LET fallback == Call("extraction", t, "general", NoneStr, FALSE)
         IN IF Raises(second)
            THEN Ran(c, second.exc, {fallback})
            ELSE Ran(AddStepResult(
                        [c EXCEPT !.extraction = second.value],
                        "extraction", "completed", first.exc.msg, TRUE),
                     NoExc, {fallback})

(***************************************************************************)
(* Generator.                                                              *)
(***************************************************************************)
\* ResponseDraft
ResponseDraft(tone, template_used) ==
    [tone |-> tone, template_used |-> template_used]

\* What ai_service.generate_response hands back: a dict of sections (the
\* mocks of the tests), a ResponseDraft object (AIService.generate_response,
\* built from the model's answer or by its own _fallback_response), or an
\* exception.
AIGenerateReplies ==
    { Outcome([kind |-> k], NoExc) : k \in {"dict", "ResponseDraft"} }
    \cup { Outcome(None, e) : e \in AIErrors }

\* ResponseGenerator._generate_with_ai: the draft is built with
\* result.get(...), which a dict has and a ResponseDraft object has not;
\* every exception is logged and raised again.
GenerateWithAI(reply, tone) ==
    IF Raises(reply) THEN reply
    ELSE IF reply.value.kind = "dict"
         THEN Outcome(ResponseDraft(tone, NoneStr), NoExc)
         ELSE Outcome(None,
                      Exc("Exception",
                          "'ResponseDraft' object has no attribute 'get'"))

\* _generate_with_ai as generate() sees it
AIGenerateOutcomes(tone) ==
    { GenerateWithAI(reply, tone) : reply \in AIGenerateReplies }

\* ResponseGenerator._generate_with_template
TemplateOutcomes(category, tone, errors) ==
    { Outcome(ResponseDraft(tone, category \o "_template"), NoExc) }
    \cup { Outcome(None, e) : e \in errors }

\* generate() if it never tried the AI service.
Generate_template_only(ai, template) == template

\* ResponseGenerator.generate once the AI call, if any, is over.
Generate(ai, template) ==
    IF WasCalled(ai) /\ ~Raises(ai) THEN ai ELSE template

\* WorkflowOrchestrator._execute_response_generation from the return of the
\* primary generate() call on; second is the outcome of the fallback call.
FinishResponseGeneration(c, t, first, second) ==
    IF ~Raises(first)
    THEN Ran(AddStepResult([c EXCEPT !.response = first.value],
                           "response_generation", "completed", NoneStr,
                           FALSE),
             NoExc, {})
    ELSE LET fallback == Call("response_generation", t, CategoryOf(c),
                              "friendly", FALSE)
         IN IF Raises(second)
            THEN Ran(c, second.exc, {fallback})
            ELSE Ran(AddStepResult(
                        [c EXCEPT !.response = second.value],
                        "response_generation", "completed", first.exc.msg,
                        TRUE),
                     NoExc, {fallback})

(***************************************************************************)
(* Router (deterministic), with the built-in team table.                   *)
(***************************************************************************)
TeamOrder ==
    <<"technical_support", "billing_team", "account_management",
      "product_team", "escalation_team">>

\* DEFAULT_TEAMS[team]["categories"]
TeamCategories(team) ==
    CASE team = "technical_support" -> {"technical", "bug_report"}
      [] team = "billing_team" -> {"billing"}
      [] team = "account_management" -> {"account"}
      [] team = "product_team" -> {"feature_request"}
      [] OTHER -> {}

\* DEFAULT_TEAMS[team]["priority_modifier"]
PriorityModifier(team) ==
    CASE team = "product_team" -> 1
      [] team = "escalation_team" -> 0 - 1
      [] OTHER -> 0

CATEGORY_TEAM_MAP(category) ==
    CASE category = "technical" -> "technical_support"
      [] category = "billing" -> "billing_team"
      [] category = "account" -> "account_management"
      [] category = "feature_request" -> "product_team"
      [] category = "bug_report" -> "technical_support"
      [] category = "general" -> "technical_support"
      [] OTHER -> "technical_support"

SEVERITY_PRIORITY_MAP(severity) ==
    CASE severity = "critical" -> "urgent"
      [] severity = "high" -> "high"
      [] severity = "medium" -> "normal"
      [] severity = "low" -> "low"
      [] OTHER -> "normal"

PriorityLevels == <<"low", "normal", "high", "urgent">>

\* TicketRouter._find_team_by_category
FindTeamByCategory(category) ==
    LET owners == SelectSeq(TeamOrder,
                     LAMBDA tm : tm # "escalation_team"
                                 /\ category \in TeamCategories(tm))
    IN IF owners # <<>> THEN owners[1] ELSE CATEGORY_TEAM_MAP(category)

\* _apply_priority_modifier if it left the priority as the table gave it.
ApplyPriorityModifier_ignored(team, priority) == priority

\* TicketRouter._apply_priority_modifier (positions are 1-based here)
ApplyPriorityModifier(team, priority) ==
    LET current == IndexIn(PriorityLevels, priority)
    IN PriorityLevels[Max2(1, Min2(Len(PriorityLevels),
                                   current + PriorityModifier(team)))]

\* _find_alternative_teams without the `team_name == primary_team` test.
FindAlternativeTeams_keeps_primary(category, primary_team) ==
    LET alternatives == SelectSeq(TeamOrder,
                           LAMBDA tm : tm # "escalation_team"
                                       /\ category \in TeamCategories(tm))
        offered == IF alternatives = <<>>
                      /\ primary_team # "technical_support"
                   THEN <<"technical_support">>
                   ELSE alternatives
    IN SubSeq(offered, 1, Min2(2, Len(offered)))

\* TicketRouter._find_alternative_teams
FindAlternativeTeams(category, primary_team) ==
    LET alternatives == SelectSeq(TeamOrder,
                           LAMBDA tm : tm # primary_team
                                       /\ tm # "escalation_team"
                                       /\ category \in TeamCategories(tm))
        offered == IF alternatives = <<>>
                      /\ primary_team # "technical_support"
                   THEN <<"technical_support">>
                   ELSE alternatives
    IN SubSeq(offered, 1, Min2(2, Len(offered)))

\* DEFAULT_TEAMS[team]["description"]
TeamDescription(team) ==
    CASE team = "technical_support" -> "Technical issues, bugs, errors"
      [] team = "billing_team" -> "Payment, subscription, refund issues"
      [] team = "account_management" ->
            "Account access, security, permissions"
      [] team = "product_team" -> "Feature requests, product feedback"
      [] team = "escalation_team" ->
            "Critical issues requiring senior review"
      [] OTHER -> ""

\* sep.join(parts)
RECURSIVE Join(_, _)
Join(parts, sep) ==
    IF parts = <<>> THEN ""
    ELSE IF Len(parts) = 1 THEN parts[1]
         ELSE parts[1] \o sep \o Join(Tail(parts), sep)

\* TicketRouter._build_reasoning; extracted_fields is the sequence of the
\* dict's keys in insertion order.
BuildReasoning(team, category, severity, extracted_fields) ==
    LET described == IF TeamDescription(team) # ""
                     THEN <<"(" \o TeamDescription(team) \o ")">>
                     ELSE <<>>
        urgency == IF severity \in {"critical", "high"}
                   THEN <<"with " \o severity \o " priority">>
                   ELSE <<>>
        detected ==
            IF extracted_fields # <<>>
            THEN <<"and detected fields: "
                   \o Join(SubSeq(extracted_fields, 1,
                                  Min2(3, Len(extracted_fields))), ", ")>>
            ELSE <<>>
    IN Join(<<"Routed to " \o team>> \o described
            \o <<"based on " \o category \o " category">>
            \o urgency \o detected, " ") \o "."

\* TicketRouter._calculate_confidence, in hundredths
CalculateConfidence(category, severity) ==
    LET mapped == IF \E i \in 1..Len(TeamOrder) :
                        category \in TeamCategories(TeamOrder[i])
                  THEN 10 ELSE 0
        clear == IF severity \in {"critical", "high"} THEN 5 ELSE 0
    IN Min2(95, 80 + mapped + clear)

\* RoutingDecision; confidence in hundredths
RoutingDecision(team, priority, reasoning, alternative_teams, confidence) ==
    [team |-> team, priority |-> priority, reasoning |-> reasoning,
     alternative_teams |-> alternative_teams, confidence |-> confidence]

\* TicketRouter._build_routing_decision
BuildRoutingDecision(team, priority, category, severity, reason) ==
    RoutingDecision(team, priority, reason, <<"technical_support">>, 95)

\* route() if it had no branch for critical severity.
Route_without_escalation(category, severity, extracted_fields) ==
    LET best_team == FindTeamByCategory(category)
    IN RoutingDecision(
           best_team,
           ApplyPriorityModifier(best_team, SEVERITY_PRIORITY_MAP(severity)),
           BuildReasoning(best_team, category, severity, extracted_fields),
           FindAlternativeTeams(category, best_team),
           CalculateConfidence(category, severity))

\* TicketRouter.route; subject and body are not read.
Route(category, severity, extracted_fields) ==
    IF severity = "critical"
    THEN BuildRoutingDecision("escalation_team", "urgent", category, severity,
                              "Critical severity requires escalation team")
    ELSE LET best_team == FindTeamByCategory(category)
         IN RoutingDecision(
                best_team,
                ApplyPriorityModifier(best_team,
                                      SEVERITY_PRIORITY_MAP(severity)),
                BuildReasoning(best_team, category, severity,
                               extracted_fields),
                FindAlternativeTeams(category, best_team),
                CalculateConfidence(category, severity))

\* The keys of extracted_dict in _execute_routing: the names of the
\* extracted fields, each once, in order of first occurrence.
RECURSIVE DictKeys(_, _)
DictKeys(fields, seen) ==
    IF fields = <<>> THEN seen
    ELSE DictKeys(Tail(fields),
                  IF \E i \in 1..Len(seen) : seen[i] = Head(fields).name
                  THEN seen ELSE Append(seen, Head(fields).name))

\* `if extraction and extraction.fields` (_execute_routing)
ExtractedDict(c) ==
    IF c.extraction # None THEN DictKeys(c.extraction.fields, <<>>)
    ELSE <<>>

\* WorkflowOrchestrator._execute_routing; first and second are the
\* exceptions of the primary and of the fallback route() call, NoExc for a
\* call that returned.
ExecuteRouting(c, t, first, second) ==
    LET sent == TicketOf(c, t)
        primary == Call("routing", sent, CategoryOf(c), NoneStr, FALSE)
        fallback == Call("routing", t, "general", NoneStr, FALSE)
    IN IF first = NoExc
       THEN Ran(AddStepResult(
                   [c EXCEPT !.routing = Route(CategoryOf(c), SeverityOf(c),
                                               ExtractedDict(c))],
                   "routing", "completed", NoneStr, FALSE),
                NoExc, {primary})
       ELSE IF second # NoExc
            THEN Ran(c, second, {primary, fallback})
            ELSE Ran(AddStepResult(
                        [c EXCEPT !.routing = Route("general", "medium", <<>>)],
                        "routing", "completed", first.msg, TRUE),
                     NoExc, {primary, fallback})

(***************************************************************************)
(* Duplicate detection.                                                    *)
(***************************************************************************)
DuplicateErrors == { Exc("Exception", "lookup failed") }

\* WorkflowOrchestrator._check_duplicate: `return False, None, None`
CheckDuplicate == <<FALSE, None, None>>

\* _execute_duplicate_detection if its except branch also recorded the
\* error in context.errors, as _execute_validation does.
ExecuteDuplicateDetection_records_error(c, t, raised) ==
    LET made == {Call("duplicate_detection", TicketOf(c, t), NoneStr,
                      NoneStr, FALSE)}
    IN IF raised = NoExc
       THEN Ran(AddStepResult(c, "duplicate_detection", "completed",
                              NoneStr, FALSE),
                NoExc, made)
       ELSE Ran(AddStepResult([c EXCEPT !.errors = @ \cup {raised.msg}],
                              "duplicate_detection", "failed",
                              raised.msg, TRUE),
                NoExc, made)

\* WorkflowOrchestrator._execute_duplicate_detection; raised is the
\* exception of _check_duplicate, NoExc if it returned.
ExecuteDuplicateDetection(c, t, raised) ==
    LET made == {Call("duplicate_detection", TicketOf(c, t), NoneStr,
                      NoneStr, FALSE)}
    IN IF raised = NoExc
       THEN LET found == CheckDuplicate
                c1 == IF found[1]
                      THEN [c EXCEPT !.duplicate_of = found[2],
                                     !.similarity_score = found[3]]
                      ELSE c
            IN Ran(AddStepResult(c1, "duplicate_detection", "completed",
                                 NoneStr, FALSE),
                   NoExc, made)
       ELSE Ran(AddStepResult(c, "duplicate_detection", "failed",
                              raised.msg, TRUE),
                NoExc, made)

(***************************************************************************)
(* Response assembly.                                                      *)
(***************************************************************************)
\* `a or b` on optional objects
OrElse(a, b) == IF a # None THEN a ELSE b

\* WorkflowResponse
WorkflowResponse(classification, extracted_fields, response_draft, routing, duplicate_of, similarity_score, workflow_steps, total_duration_ms) ==
    [returned |-> "response",
     classification |-> classification,
     extracted_fields |-> extracted_fields,
     response_draft |-> response_draft,
     routing |-> routing,
     duplicate_of |-> duplicate_of,
     similarity_score |-> similarity_score,
     workflow_steps |-> workflow_steps,
     total_duration_ms |-> total_duration_ms]

\* WorkflowOrchestrator._build_success_response
BuildSuccessResponse(c, seconds) ==
    WorkflowResponse(
        OrElse(c.classification,
               Classification("general", 50, "medium", 50,
                              "Default classification")),
        OrElse(c.extraction, Extraction(<<>>, <<>>)),
        c.response,
        OrElse(c.routing,
               RoutingDecision("technical_support", "normal",
                               "Default routing", <<>>, 100)),
        c.duplicate_of, c.similarity_score, c.steps, seconds * 1000)

\* _build_error_response if it always answered with its default
\* classification, extraction and routing.
BuildErrorResponse_defaults(c, error_message, seconds) ==
    LET c1 == IF "error" \notin StepNames(c.steps)
              THEN AddStepResult(c, "error", "failed", error_message, FALSE)
              ELSE c
    IN [ctx |-> c1,
        response |->
            WorkflowResponse(
                Classification("general", 30, "medium", 30,
                               "Error occurred: " \o error_message),
                Extraction(<<>>, <<>>),
                None,
                RoutingDecision("technical_support", "normal",
                                "Default routing due to error", <<>>, 100),
                None, None, c1.steps, seconds * 1000)]

\* WorkflowOrchestrator._build_error_response: the context it leaves and the
\* response it returns.
BuildErrorResponse(c, error_message, seconds) ==
    LET c1 == IF "error" \notin StepNames(c.steps)
              THEN AddStepResult(c, "error", "failed", error_message, FALSE)
              ELSE c
    IN [ctx |-> c1,
        response |->
            WorkflowResponse(
                OrElse(c1.classification,
                       Classification("general", 30, "medium", 30,
                                      "Error occurred: " \o error_message)),
                OrElse(c1.extraction, Extraction(<<>>, <<>>)),
                None,
                OrElse(c1.routing,
                       RoutingDecision("technical_support", "normal",
                                       "Default routing due to error",
                                       <<>>, 100)),
                None, None, c1.steps, seconds * 1000)]

\* ExecuteCatches without the `except Exception` clause.
ExecuteCatches_timeout_only(exc) == exc.cls = "TimeoutError"

\* The except clauses of execute(): does one of them catch the exception ...
ExecuteCatches(exc) == exc.cls \in {"TimeoutError", "Exception"}

\* ... and the message it hands to _build_error_response.
ExecuteErrorMessage(exc) ==
    IF exc.cls = "TimeoutError" THEN "Workflow execution timeout"
    ELSE exc.msg

(***************************************************************************)
(* The invocation as a state machine.                                      *)
(*                                                                         *)
(* task[s] is "idle" (not launched), "skipped" (switched off by the        *)
(* options), "ready" (launched by gather, not yet run), "await_ai"         *)
(* (suspended in the AI service's network call), "done" (the stage method  *)
(* returned) or "raised" (an exception left the stage method).  A call of  *)
(* the AI service is a network round trip and therefore a suspension       *)
(* point; rule-based code runs without suspending.                         *)
(***************************************************************************)
GroupStages == <<"duplicate_detection", "classification", "extraction">>
Stages ==
    { GroupStages[i] : i \in 1..Len(GroupStages) }
    \cup {"response_generation", "routing"}
GroupSet == { GroupStages[i] : i \in 1..Len(GroupStages) }

\* The stages launched before s in the parallel/sequential group.
Before(s) == { GroupStages[j] : j \in 1..(IndexIn(GroupStages, s) - 1) }

\* StageEnabled if execute() did not read skip_response.
StageEnabled_ignores_skip_response(s, o) ==
    CASE s = "duplicate_detection" -> o.enable_duplicate_detection
      [] s = "classification" -> ~o.skip_classification
      [] s = "extraction" -> ~o.skip_extraction
      [] s = "response_generation" -> TRUE
      [] s = "routing" -> ~o.skip_routing

\* Does the stage run under these options?
StageEnabled(s, o) ==
    CASE s = "duplicate_detection" -> o.enable_duplicate_detection
      [] s = "classification" -> ~o.skip_classification
      [] s = "extraction" -> ~o.skip_extraction
      [] s = "response_generation" -> ~o.skip_response
      [] s = "routing" -> ~o.skip_routing

\* SkipDefault if a skipped stage left its context field empty.
SkipDefault_nothing(c, s) == c

\* The synthetic result a skipped stage leaves in the context.
SkipDefault(c, s) ==
    CASE s = "classification" ->
            [c EXCEPT !.classification =
                Classification("general", 100, "medium", 100,
                               "Classification skipped")]
      [] s = "extraction" -> [c EXCEPT !.extraction = Extraction(<<>>, <<>>)]
      [] OTHER -> c

RECURSIVE SkipDefaults(_, _, _)
SkipDefaults(c, o, stages) ==
    IF stages = <<>> THEN c
    ELSE SkipDefaults(IF StageEnabled(Head(stages), o) THEN c
                      ELSE SkipDefault(c, Head(stages)),
                      o, Tail(stages))

\* GatherDone as asyncio.wait(..., return_when=FIRST_COMPLETED) would be:
\* the group is left as soon as one task has finished.
GatherDone_any(tk) ==
    \/ \A s \in GroupSet : tk[s] = "skipped"
    \/ \E s \in GroupSet : tk[s] \in {"done", "raised"}

\* asyncio.gather(*tasks, return_exceptions=True) returns when every task
\* has returned or raised.
GatherDone(tk) ==
    \A s \in GroupSet : tk[s] \in {"skipped", "done", "raised"}

\* Seconds by which the model's clock advances in one step.
TickSeconds == 31

Init ==
    /\ ticket \in Tickets
    /\ options \in WorkflowOptions
    /\ enable_ai \in BOOLEAN
    /\ ctx = NewContext
    /\ pc = "start"
    /\ task = [s \in Stages |-> "idle"]
    /\ pending = [s \in Stages |-> None]
    /\ escaped = [s \in Stages |-> NoExc]
    /\ calls = {}
    /\ ai_failed = {}
    /\ elapsed = 0
    /\ result = None
    /\ router = None
    /\ unit = None

\* A stage method ran to its end: record what it left.  ai is the outcome
\* of the AI call it resumed from, NotCalled if it made none.
Finished(s, ran, made, ai) ==
    /\ ai_failed' = IF WasCalled(ai) /\ Raises(ai) THEN ai_failed \cup {s}
                    ELSE ai_failed
    /\ ctx' = ran.ctx
    /\ task' = [task EXCEPT ![s] = IF ran.exc = NoExc THEN "done"
                                   ELSE "raised"]
    /\ escaped' = [escaped EXCEPT ![s] = ran.exc]
    /\ pending' = [pending EXCEPT ![s] = None]
    /\ calls' = calls \cup ran.calls \cup made

\* execute(), lines 141-156: context creation, validation, short circuit.
Validation ==
    /\ pc = "start"
    /\ \E raised \in {NoExc} \cup ValidatorErrors :
         \E c1 \in {ExecuteValidation(ctx, ticket, raised)} :
           IF ValidationFailed(c1)
           THEN \E b \in {BuildErrorResponse(c1, "Validation failed",
                                             elapsed)} :
                  /\ ctx' = b.ctx
                  /\ result' = b.response
                  /\ pc' = "returned"
           ELSE /\ ctx' = c1
                /\ pc' = "group"
                /\ UNCHANGED result
    /\ calls' = calls \cup {Call("validation", ticket, NoneStr, NoneStr, FALSE)}
    /\ UNCHANGED <<ticket, options, enable_ai, task, pending, escaped,
                   ai_failed, elapsed>>
    /\ UNCHANGED <<router, unit>>

\* _execute_parallel_steps up to the gather() call.
LaunchParallel ==
    /\ pc = "group"
    /\ options.enable_parallel
    /\ ctx' = SkipDefaults(ctx, options, GroupStages)
    /\ task' = [s \in Stages |->
                  IF s \in GroupSet
                  THEN IF StageEnabled(s, options) THEN "ready" ELSE "skipped"
                  ELSE task[s]]
    /\ pc' = IF \E s \in GroupSet : StageEnabled(s, options)
             THEN "gather" ELSE "respond"
    /\ UNCHANGED <<ticket, options, enable_ai, pending, escaped, calls,
                   ai_failed, elapsed, result>>
    /\ UNCHANGED <<router, unit>>

\* execute() enters _execute_sequential_steps.
LaunchSequential ==
    /\ pc = "group"
    /\ ~options.enable_parallel
    /\ pc' = "seq"
    /\ UNCHANGED <<ticket, options, enable_ai, ctx, task, pending, escaped,
                   calls, ai_failed, elapsed, result>>
    /\ UNCHANGED <<router, unit>>

\* CanStart if _execute_sequential_steps created its stages as tasks and
\* did not await each before starting the next.
CanStart_unordered(s) ==
    \/ /\ pc = "gather"
       /\ task[s] = "ready"
       /\ \A b \in Before(s) : task[b] # "ready"
    \/ /\ pc = "seq"
       /\ task[s] = "idle"
       /\ StageEnabled(s, options)

\* May the stage coroutine s of the group take its first step?  Under
\* gather() the tasks start in the order they were handed over; in
\* sequential mode each stage waits for the one before it to return.
CanStart(s) ==
    \/ /\ pc = "gather"
       /\ task[s] = "ready"
       /\ \A b \in Before(s) : task[b] # "ready"
    \/ /\ pc = "seq"
       /\ task[s] = "idle"
       /\ StageEnabled(s, options)
       /\ \A b \in Before(s) : task[b] \in {"skipped", "done"}

\* _execute_sequential_steps: the else branch of a switched-off stage.
SeqSkip(s) ==
    /\ pc = "seq"
    /\ task[s] = "idle"
    /\ ~StageEnabled(s, options)
    /\ \A b \in Before(s) : task[b] \in {"skipped", "done"}
    /\ ctx' = SkipDefault(ctx, s)
    /\ task' = [task EXCEPT ![s] = "skipped"]
    /\ UNCHANGED <<ticket, options, enable_ai, pc, pending, escaped, calls,
                   ai_failed, elapsed, result>>
    /\ UNCHANGED <<router, unit>>

\* _execute_duplicate_detection (never suspends).
DuplicateDetection ==
    /\ CanStart("duplicate_detection")
    /\ \E raised \in {NoExc} \cup DuplicateErrors :
         Finished("duplicate_detection",
                  ExecuteDuplicateDetection(ctx, ticket, raised), {},
                  NotCalled)
    /\ UNCHANGED <<ticket, options, enable_ai, pc, elapsed, result>>
    /\ UNCHANGED <<router, unit>>

\* _execute_classification up to the AI call, or to its end without AI.
StartClassification ==
    /\ CanStart("classification")
    /\ LET use_ai == enable_ai /\ ENABLE_AI_CLASSIFICATION
           made == {Call("classification", TicketOf(ctx, ticket), NoneStr,
                         NoneStr, use_ai)}
       IN IF UsesAI(use_ai, enable_ai)
          THEN /\ task' = [task EXCEPT !["classification"] = "await_ai"]
               /\ calls' = calls \cup made
               /\ UNCHANGED <<ctx, pending, escaped, ai_failed>>
          ELSE \E rules \in RuleClassifyOutcomes(PrimaryErrors),
                  second \in RuleClassifyOutcomes(StageErrors) :
                 Finished("classification",
                          FinishClassification(ctx, ticket,
                                               Classify(NotCalled, rules),
                                               second),
                          made, NotCalled)
    /\ UNCHANGED <<ticket, options, enable_ai, pc, elapsed, result>>
    /\ UNCHANGED <<router, unit>>

\* _execute_classification from the return of the AI call to its end.
ResumeClassification ==
    /\ task["classification"] = "await_ai"
    /\ \E ai \in AIClassifyOutcomes,
          rules \in RuleClassifyOutcomes(PrimaryErrors),
          second \in RuleClassifyOutcomes(StageErrors) :
         Finished("classification",
                  FinishClassification(ctx, ticket, Classify(ai, rules),
                                       second),
                  {}, ai)
    /\ UNCHANGED <<ticket, options, enable_ai, pc, elapsed, result>>
    /\ UNCHANGED <<router, unit>>

\* The fallback extract() call of _execute_extraction's except branch.
FallbackExtract(regex) ==
    IF Raises(regex) THEN regex
    ELSE Extract(regex.value, NotCalled, "general")

\* _execute_extraction up to the AI call, or to its end without AI.
StartExtraction ==
    /\ CanStart("extraction")
    /\ LET use_ai == enable_ai /\ ENABLE_AI_EXTRACTION
           category == CategoryOf(ctx)
           made == {Call("extraction", TicketOf(ctx, ticket), category,
                         NoneStr, use_ai)}
       IN \E regex \in RegexOutcomes(PrimaryErrors),
             second \in RegexOutcomes(StageErrors) :
            IF ~Raises(regex) /\ UsesAI(use_ai, enable_ai)
            THEN /\ task' = [task EXCEPT !["extraction"] = "await_ai"]
                 /\ pending' = [pending EXCEPT !["extraction"] =
                                  [fields |-> regex.value,
                                   category |-> category]]
                 /\ calls' = calls \cup made
                 /\ UNCHANGED <<ctx, escaped, ai_failed>>
            ELSE Finished("extraction",
                          FinishExtraction(
                              ctx, ticket,
                              IF Raises(regex) THEN regex
                              ELSE Extract(regex.value, NotCalled, category),
                              FallbackExtract(second)),
                          made, NotCalled)
    /\ UNCHANGED <<ticket, options, enable_ai, pc, elapsed, result>>
    /\ UNCHANGED <<router, unit>>

\* _execute_extraction from the return of the AI call to its end.
ResumeExtraction ==
    /\ task["extraction"] = "await_ai"
    /\ \E ai \in AIExtractOutcomes :
         Finished("extraction",
                  FinishExtraction(ctx, ticket,
                                   Extract(pending["extraction"].fields, ai,
                                           pending["extraction"].category),
                                   NotCalled),
                  {}, ai)
    /\ UNCHANGED <<ticket, options, enable_ai, pc, elapsed, result>>
    /\ UNCHANGED <<router, unit>>

\* gather() hands the results, exceptions among them, back to
\* _execute_parallel_steps, which drops them and returns.
GatherReturn ==
    /\ pc = "gather"
    /\ GatherDone(task)
    /\ pc' = "respond"
    /\ UNCHANGED <<ticket, options, enable_ai, ctx, task, pending, escaped,
                   calls, ai_failed, elapsed, result>>
    /\ UNCHANGED <<router, unit>>

\* _execute_sequential_steps returns.
SeqReturn ==
    /\ pc = "seq"
    /\ \A s \in GroupSet : task[s] \in {"skipped", "done"}
    /\ pc' = "respond"
    /\ UNCHANGED <<ticket, options, enable_ai, ctx, task, pending, escaped,
                   calls, ai_failed, elapsed, result>>
    /\ UNCHANGED <<router, unit>>

\* execute(): `if not options.skip_response` is false.
SkipResponse ==
    /\ pc = "respond"
    /\ ~StageEnabled("response_generation", options)
    /\ task' = [task EXCEPT !["response_generation"] = "skipped"]
    /\ pc' = "route"
    /\ UNCHANGED <<ticket, options, enable_ai, ctx, pending, escaped, calls,
                   ai_failed, elapsed, result>>
    /\ UNCHANGED <<router, unit>>

\* The stage method called from execute() itself returned: execute() goes on.
Proceed(s, ran, next) ==
    pc' = IF ran.exc = NoExc THEN next ELSE pc

\* _execute_response_generation up to the AI call, or to its end without AI.
StartResponseGeneration ==
    /\ pc = "respond"
    /\ StageEnabled("response_generation", options)
    /\ task["response_generation"] = "idle"
    /\ LET use_ai == enable_ai /\ ENABLE_RESPONSE_GENERATION
           category == CategoryOf(ctx)
           tone == options.response_tone
           made == {Call("response_generation", TicketOf(ctx, ticket),
                         category, tone, use_ai)}
       IN IF UsesAI(use_ai, enable_ai)
          THEN /\ task' = [task EXCEPT !["response_generation"] = "await_ai"]
               /\ pending' = [pending EXCEPT !["response_generation"] =
                                [category |-> category, tone |-> tone]]
               /\ calls' = calls \cup made
               /\ UNCHANGED <<ctx, escaped, pc, ai_failed>>
          ELSE \E template \in TemplateOutcomes(category, tone, PrimaryErrors),
                  second \in TemplateOutcomes(category, "friendly",
                                              StageErrors) :
                 LET ran == FinishResponseGeneration(
                                ctx, ticket, Generate(NotCalled, template),
                                second)
                 IN /\ Finished("response_generation", ran, made, NotCalled)
                    /\ Proceed("response_generation", ran, "route")
    /\ UNCHANGED <<ticket, options, enable_ai, elapsed, result>>
    /\ UNCHANGED <<router, unit>>

\* _execute_response_generation from the return of the AI call to its end.
ResumeResponseGeneration ==
    /\ task["response_generation"] = "await_ai"
    /\ LET category == pending["response_generation"].category
           tone == pending["response_generation"].tone
       IN \E ai \in AIGenerateOutcomes(tone),
             template \in TemplateOutcomes(category, tone, PrimaryErrors),
             second \in TemplateOutcomes(CategoryOf(ctx), "friendly",
                                         StageErrors) :
            LET ran == FinishResponseGeneration(
                           ctx, ticket, Generate(ai, template), second)
            IN /\ Finished("response_generation", ran, {}, ai)
               /\ Proceed("response_generation", ran, "route")
    /\ UNCHANGED <<ticket, options, enable_ai, elapsed, result>>
    /\ UNCHANGED <<router, unit>>

\* execute(): `if not options.skip_routing` is false.
SkipRouting ==
    /\ pc = "route"
    /\ ~StageEnabled("routing", options)
    /\ task' = [task EXCEPT !["routing"] = "skipped"]
    /\ pc' = "assemble"
    /\ UNCHANGED <<ticket, options, enable_ai, ctx, pending, escaped, calls,
                   ai_failed, elapsed, result>>
    /\ UNCHANGED <<router, unit>>

\* _execute_routing (never suspends).
Routing ==
    /\ pc = "route"
    /\ StageEnabled("routing", options)
    /\ task["routing"] = "idle"
    /\ \E first \in {NoExc} \cup PrimaryErrors,
          second \in {NoExc} \cup StageErrors :
         LET ran == ExecuteRouting(ctx, ticket, first, second)
         IN /\ Finished("routing", ran, {}, NotCalled)
            /\ Proceed("routing", ran, "assemble")
    /\ UNCHANGED <<ticket, options, enable_ai, elapsed, result>>
    /\ UNCHANGED <<router, unit>>

\* execute(), line 173: the success response.
ReturnSuccess ==
    /\ pc = "assemble"
    /\ result' = BuildSuccessResponse(ctx, elapsed)
    /\ pc' = "returned"
    /\ UNCHANGED <<ticket, options, enable_ai, ctx, task, pending, escaped,
                   calls, ai_failed, elapsed>>
    /\ UNCHANGED <<router, unit>>

\* Propagates for gather() without return_exceptions=True: the first
\* exception of a task of the group reaches execute() at once.
Propagates_from_gather(s) ==
    \/ pc \in {"seq", "gather"} /\ s \in GroupSet
    \/ pc = "respond" /\ s = "response_generation"
    \/ pc = "route" /\ s = "routing"

\* The stages whose exception reaches the try block of execute(): those it
\* awaits itself.  gather() keeps the exceptions of the parallel group.
Propagates(s) ==
    \/ pc = "seq" /\ s \in GroupSet
    \/ pc = "respond" /\ s = "response_generation"
    \/ pc = "route" /\ s = "routing"

\* execute(), lines 175-180: an exception reached the try block.
ExecuteExcept(s) ==
    /\ task[s] = "raised"
    /\ Propagates(s)
    /\ IF ExecuteCatches(escaped[s])
       THEN LET b == BuildErrorResponse(ctx, ExecuteErrorMessage(escaped[s]),
                                        elapsed)
            IN /\ ctx' = b.ctx
               /\ result' = b.response
       ELSE /\ result' = [returned |-> "exception", exc |-> escaped[s]]
            /\ UNCHANGED ctx
    /\ pc' = "returned"
    /\ UNCHANGED <<ticket, options, enable_ai, task, pending, escaped, calls,
                   ai_failed, elapsed>>
    /\ UNCHANGED <<router, unit>>

\* Wall-clock time passes while a coroutine waits for the AI service.
Tick ==
    /\ \E s \in Stages : task[s] = "await_ai"
    /\ elapsed <= WORKFLOW_TIMEOUT_SECONDS
    /\ elapsed' = elapsed + TickSeconds
    /\ UNCHANGED <<ticket, options, enable_ai, ctx, pc, task, pending,
                   escaped, calls, ai_failed, result>>
    /\ UNCHANGED <<router, unit>>

Next ==
    \/ Validation
    \/ LaunchParallel
    \/ LaunchSequential
    \/ \E s \in GroupSet : SeqSkip(s)
    \/ DuplicateDetection
    \/ StartClassification
    \/ ResumeClassification
    \/ StartExtraction
    \/ ResumeExtraction
    \/ GatherReturn
    \/ SeqReturn
    \/ SkipResponse
    \/ StartResponseGeneration
    \/ ResumeResponseGeneration
    \/ SkipRouting
    \/ Routing
    \/ ReturnSuccess
    \/ \E s \in Stages : ExecuteExcept(s)
    \/ Tick

Spec == Init /\ [][Next]_vars

\* The event loop runs every coroutine that can run, and a call of the AI
\* service returns or raises in the end (the client retries three times and
\* then gives up); nothing obliges the clock to advance.
Progress ==
    \/ Validation
    \/ LaunchParallel
    \/ LaunchSequential
    \/ \E s \in GroupSet : SeqSkip(s)
    \/ DuplicateDetection
    \/ StartClassification
    \/ ResumeClassification
    \/ StartExtraction
    \/ ResumeExtraction
    \/ GatherReturn
    \/ SeqReturn
    \/ SkipResponse
    \/ StartResponseGeneration
    \/ ResumeResponseGeneration
    \/ SkipRouting
    \/ Routing
    \/ ReturnSuccess
    \/ \E s \in Stages : ExecuteExcept(s)

FairSpec == Spec /\ WF_vars(Progress)

(***************************************************************************)
(* A direct call of TicketRouter.route(), the way the router's own tests   *)
(* and execute_routing_only() make it.                                     *)
(***************************************************************************)
\* "other" and "unknown" stand for the strings outside the two closed lists.
RouteCategories ==
    { VALID_CATEGORIES[i] : i \in 1..Len(VALID_CATEGORIES) } \cup {"other"}
RouteSeverities ==
    { VALID_SEVERITIES[i] : i \in 1..Len(VALID_SEVERITIES) } \cup {"unknown"}
\* The keys of the extracted-fields dict: none, one, and more than the three
\* the reasoning names.
RouteFieldMaps ==
    { <<>>, <<"error_code">>,
      <<"order_id", "amount", "account_email", "error_code">> }

RouterInit ==
    /\ router \in [category : RouteCategories,
                   severity : RouteSeverities,
                   extracted_fields : RouteFieldMaps,
                   decision : {None}]
    /\ ticket = CHOOSE t \in Tickets : Validate(t).is_valid
    /\ options = CHOOSE o \in WorkflowOptions : TRUE
    /\ enable_ai = FALSE
    /\ ctx = NewContext
    /\ pc = "direct"
    /\ task = [s \in Stages |-> "idle"]
    /\ pending = [s \in Stages |-> None]
    /\ escaped = [s \in Stages |-> NoExc]
    /\ calls = {}
    /\ ai_failed = {}
    /\ elapsed = 0
    /\ result = None
    /\ unit = None

\* route(subject, body, category, severity, extracted_fields) returns.
CallRoute ==
    /\ pc = "direct"
    /\ router.decision = None
    /\ router' = [router EXCEPT !.decision =
                    Route(router.category, router.severity,
                          router.extracted_fields)]
    /\ UNCHANGED <<ticket, options, enable_ai, ctx, pc, task, pending,
                   escaped, calls, ai_failed, elapsed, result, unit>>

RouterSpec == RouterInit /\ [][CallRoute]_vars

\* A caller that either invokes execute() or calls route() directly.
CallerInit == Init \/ RouterInit
CallerNext == Next \/ CallRoute
CallerSpec == CallerInit /\ [][CallerNext]_vars

(***************************************************************************)
(* Direct calls of the stage contracts, the way their own tests make them. *)
(***************************************************************************)
\* No invocation of execute() is under way.
Idle ==
    /\ ticket = CHOOSE t \in Tickets : Validate(t).is_valid
    /\ options = CHOOSE o \in WorkflowOptions : TRUE
    /\ enable_ai = FALSE
    /\ ctx = NewContext
    /\ pc = "direct"
    /\ task = [s \in Stages |-> "idle"]
    /\ pending = [s \in Stages |-> None]
    /\ escaped = [s \in Stages |-> NoExc]
    /\ calls = {}
    /\ ai_failed = {}
    /\ elapsed = 0
    /\ result = None
    /\ router = None

\* The direct call op has its inputs and has not returned yet.
Calling(op) ==
    /\ pc = "direct"
    /\ unit # None
    /\ unit.op = op
    /\ unit.returned = None

\* The direct call op has returned.
Called(op) ==
    /\ unit # None
    /\ unit.op = op
    /\ unit.returned # None

\* category_confidence values around the threshold, in hundredths
ClassifyConfidences ==
    {0, AI_CONFIDENCE_THRESHOLD - 1, AI_CONFIDENCE_THRESHOLD,
     AI_CONFIDENCE_THRESHOLD + 1, 100}

\* What ai_service.classify_ticket answers in a direct classify() call.
AIClassifyReplies ==
    { Outcome(Classification(a[1], cc, a[2], sc, "ai"), NoExc) :
        a \in AIAnswers, cc \in ClassifyConfidences, sc \in {0, 100} }
    \cup { Outcome(None, e) : e \in AIErrors }

\* classify(subject, body, use_ai) on a classifier built with or without
\* an AI service.
ClassifierInit ==
    /\ Idle
    /\ unit \in [op : {"classify"}, use_ai : BOOLEAN, ai_service : BOOLEAN,
                  ai : AIClassifyReplies,
                  rules : RuleClassifyOutcomes(PrimaryErrors),
                  returned : {None}]

CallClassify ==
    /\ Calling("classify")
    /\ unit' = [unit EXCEPT !.returned =
                  Classify(IF UsesAI(unit.use_ai, unit.ai_service)
                           THEN unit.ai ELSE NotCalled,
                           unit.rules)]
    /\ UNCHANGED <<ticket, options, enable_ai, ctx, pc, task, pending,
                   escaped, calls, ai_failed, elapsed, result, router>>

\* Words a ticket text may hold: indicators of each severity, one of them
\* ("serious") listed under two severities.
SeverityWords ==
    {"urgent", "asap", "serious", "important", "issue", "help", "minor",
     "wondering"}

\* _match_severity(text) on the lower-cased subject and body.
SeverityInit ==
    /\ Idle
    /\ unit \in [op : {"match_severity"}, text : SUBSET SeverityWords,
                  returned : {None}]

CallMatchSeverity ==
    /\ Calling("match_severity")
    /\ unit' = [unit EXCEPT !.returned = MatchSeverity(unit.text)]
    /\ UNCHANGED <<ticket, options, enable_ai, ctx, pc, task, pending,
                   escaped, calls, ai_failed, elapsed, result, router>>

\* What the regex pass hands to _merge_fields: nothing, one field, two
\* fields of one name (two error codes in the text), fields of two names.
MergeRegexFields ==
    { <<>>,
      <<ExtractedField("error_code", 85, "regex")>>,
      <<ExtractedField("error_code", 85, "regex"),
        ExtractedField("error_code", 70, "regex, second match")>>,
      <<ExtractedField("account_email", 95, "regex"),
        ExtractedField("error_code", 85, "regex")>> }

\* What the AI service hands to _merge_fields: a known name with a higher,
\* an equal and a lower confidence, a new name, both, nothing.
MergeAIFields ==
    { <<>>,
      <<ExtractedField("error_code", 95, "ai")>>,
      <<ExtractedField("error_code", 85, "ai")>>,
      <<ExtractedField("error_code", 60, "ai")>>,
      <<ExtractedField("amount", 80, "ai")>>,
      <<ExtractedField("error_code", 95, "ai"),
        ExtractedField("amount", 80, "ai")>> }

\* _merge_fields(regex_fields, ai_fields)
MergeInit ==
    /\ Idle
    /\ unit \in [op : {"merge_fields"}, regex_fields : MergeRegexFields,
                  ai_fields : MergeAIFields, returned : {None}]

CallMergeFields ==
    /\ Calling("merge_fields")
    /\ unit' = [unit EXCEPT !.returned =
                  [fields |-> MergeFields(unit.regex_fields,
                                          unit.ai_fields)]]
    /\ UNCHANGED <<ticket, options, enable_ai, ctx, pc, task, pending,
                   escaped, calls, ai_failed, elapsed, result, router>>

\* generate(subject, body, category, severity, ..., tone, use_ai) on a
\* generator built with or without an AI service; "other" stands for a
\* category without a template of its own.
GenerateInit ==
    /\ Idle
    /\ unit \in [op : {"generate"}, use_ai : BOOLEAN, ai_service : BOOLEAN,
                  category : {"billing", "other"}, tone : Tones,
                  reply : AIGenerateReplies, template_raises : BOOLEAN,
                  returned : {None}]

CallGenerate ==
    /\ Calling("generate")
    /\ \E template \in TemplateOutcomes(unit.category, unit.tone,
                                         PrimaryErrors) :
         /\ Raises(template) = unit.template_raises
         /\ unit' = [unit EXCEPT !.returned =
                       Generate(IF UsesAI(unit.use_ai, unit.ai_service)
                                THEN GenerateWithAI(unit.reply, unit.tone)
                                ELSE NotCalled,
                                template)]
    /\ UNCHANGED <<ticket, options, enable_ai, ctx, pc, task, pending,
                   escaped, calls, ai_failed, elapsed, result, router>>

\* The stages that read the AI service's token counter for their step.
AIStages == {"classification", "extraction", "response_generation"}

\* response.usage.total_tokens of the API calls one stage makes: none (the
\* service answered from its own fallback), or one of two amounts.
TokenCounts == {0, 120, 350}

\* Invocations of execute() on the orchestrator that get_ai_service()
\* serves with its one cached AIService.
MaxInvocations == 2

\* AIService.__init__: the counter starts at 0; then the first execute().
TokenInit ==
    /\ Idle
    /\ unit = [op |-> "tokens", total |-> 0, invocation |-> 1,
               steps |-> <<>>, returned |-> None]

\* An AI-backed stage of the current invocation runs: _call_openai adds the
\* call's tokens to _token_usage["total"], and the stage records
\* token_usage.get("total", 0) as the tokens_used of its step.  consumed is
\* what this stage's own calls added.
AIStage(s) ==
    /\ Calling("tokens")
    /\ s \notin StepNames(unit.steps)
    /\ s = "response_generation"
          => AIStages \ {s} \subseteq StepNames(unit.steps)
    /\ \E n \in TokenCounts :
         unit' = [unit EXCEPT
                    !.total = @ + n,
                    !.steps = Append(@, [step_name |-> s,
                                         tokens_used |-> unit.total + n,
                                         consumed |-> n])]
    /\ UNCHANGED <<ticket, options, enable_ai, ctx, pc, task, pending,
                   escaped, calls, ai_failed, elapsed, result, router>>

\* The invocation returns and the same orchestrator serves the next
\* request: a new context, the same AI service.
NextExecution ==
    /\ Calling("tokens")
    /\ AIStages \subseteq StepNames(unit.steps)
    /\ unit.invocation < MaxInvocations
    /\ unit' = [unit EXCEPT !.invocation = @ + 1, !.steps = <<>>]
    /\ UNCHANGED <<ticket, options, enable_ai, ctx, pc, task, pending,
                   escaped, calls, ai_failed, elapsed, result, router>>

ContractInit ==
    \/ ClassifierInit
    \/ TokenInit
    \/ GenerateInit
    \/ MergeInit
    \/ SeverityInit

ContractNext ==
    \/ CallClassify
    \/ \E s \in AIStages : AIStage(s)
    \/ NextExecution
    \/ CallGenerate
    \/ CallMergeFields
    \/ CallMatchSeverity

ContractSpec == ContractInit /\ [][ContractNext]_vars

(***************************************************************************)
(* execute() run to its end in one piece, every collaborator answering as  *)
(* a fixed table says, so that the two settings of enable_parallel can be  *)
(* run against the same collaborator behaviour.  Both runs finish before   *)
(* the deadline.                                                           *)
(***************************************************************************)
\* What the fallback call of a stage raises when it fails.
FallbackErrors == { Exc("Exception", "fallback failed") }

\* The behaviour of the collaborators during one invocation: for every call
\* a stage can make, what it answers or raises.  In GroupWorlds the calls
\* of the three grouped stages answer or fail in every combination and the
\* later stages work; in LaterWorlds it is the other way round.
RuleAnswer == CHOOSE o \in RuleClassifyOutcomes({}) : o.value.category = "technical"
RegexAnswer == CHOOSE o \in RegexOutcomes({}) : TRUE

GroupWorlds ==
    [validator : {NoExc},
     duplicate : {NoExc} \cup DuplicateErrors,
     classify_ai : AIClassifyOutcomes,
     rules : {RuleAnswer} \cup { Outcome(None, e) : e \in PrimaryErrors },
     rules_fallback : {RuleAnswer} \cup { Outcome(None, e) : e \in FallbackErrors },
     regex : RegexOutcomes(PrimaryErrors),
     regex_fallback : RegexOutcomes(FallbackErrors),
     extract_ai : AIExtractOutcomes,
     reply : { r \in AIGenerateReplies : ~Raises(r) /\ r.value.kind = "dict" },
     template : {NoExc},
     template_fallback : {NoExc},
     route : {NoExc},
     route_fallback : {NoExc}]

LaterWorlds ==
    [validator : {NoExc},
     duplicate : {NoExc},
     classify_ai : { o \in AIClassifyOutcomes :
                       ~Raises(o) /\ o.value.category_confidence >= AI_CONFIDENCE_THRESHOLD },
     rules : {RuleAnswer},
     rules_fallback : {RuleAnswer},
     regex : {RegexAnswer},
     regex_fallback : {RegexAnswer},
     extract_ai : { o \in AIExtractOutcomes : ~Raises(o) },
     reply : AIGenerateReplies,
     template : {NoExc} \cup PrimaryErrors,
     template_fallback : {NoExc} \cup FallbackErrors,
     route : {NoExc} \cup PrimaryErrors,
     route_fallback : {NoExc} \cup FallbackErrors]

Worlds == GroupWorlds \cup LaterWorlds

\* _generate_with_template in a call that raises exc, or returns if NoExc
TemplateIn(category, tone, exc) ==
    IF exc = NoExc THEN Outcome(ResponseDraft(tone, category \o "_template"), NoExc)
    ELSE Outcome(None, exc)

\* _execute_classification run in one piece on context c
RunClassification(c, t, ai_on, w) ==
    FinishClassification(
        c, t,
        Classify(IF UsesAI(ai_on /\ ENABLE_AI_CLASSIFICATION, ai_on)
                 THEN w.classify_ai ELSE NotCalled,
                 w.rules),
        w.rules_fallback)

\* Does _execute_classification suspend in the AI service?
ClassificationSuspends(ai_on) ==
    UsesAI(ai_on /\ ENABLE_AI_CLASSIFICATION, ai_on)

\* Does _execute_extraction suspend in the AI service?
ExtractionSuspends(ai_on, w) ==
    ~Raises(w.regex) /\ UsesAI(ai_on /\ ENABLE_AI_EXTRACTION, ai_on)

\* _execute_extraction: it read category when it started and leaves its
\* result in context c.
RunExtraction(c, t, ai_on, w, category) ==
    FinishExtraction(
        c, t,
        IF Raises(w.regex) THEN w.regex
        ELSE Extract(w.regex.value,
                     IF UsesAI(ai_on /\ ENABLE_AI_EXTRACTION, ai_on)
                     THEN w.extract_ai ELSE NotCalled,
                     category),
        FallbackExtract(w.regex_fallback))

\* _execute_response_generation run in one piece
RunResponseGeneration(c, t, o, ai_on, w) ==
    FinishResponseGeneration(
        c, t,
        Generate(IF UsesAI(ai_on /\ ENABLE_RESPONSE_GENERATION, ai_on)
                 THEN GenerateWithAI(w.reply, o.response_tone)
                 ELSE NotCalled,
                 TemplateIn(CategoryOf(c), o.response_tone, w.template)),
        TemplateIn(CategoryOf(c), "friendly", w.template_fallback))

\* _execute_sequential_steps: each stage is awaited before the next starts,
\* and the first exception leaves the method.
SequentialSteps(c, t, o, ai_on, w) ==
    LET d == IF StageEnabled("duplicate_detection", o)
             THEN ExecuteDuplicateDetection(c, t, w.duplicate).ctx
             ELSE c
        k == IF StageEnabled("classification", o)
             THEN RunClassification(d, t, ai_on, w)
             ELSE Ran(SkipDefault(d, "classification"), NoExc, {})
    IN IF k.exc # NoExc THEN k
       ELSE IF StageEnabled("extraction", o)
            THEN RunExtraction(k.ctx, t, ai_on, w, CategoryOf(k.ctx))
            ELSE Ran(SkipDefault(k.ctx, "extraction"), NoExc, {})

\* How gather() interleaves classification and extraction around their AI
\* calls: under "unsuspended" the AI call of classification hands its answer
\* back before the extraction task takes its first step (an AI service that
\* answers without giving up the event loop, as a mock does); otherwise
\* extraction starts while classification is suspended, and the name tells
\* which of the two, both suspended, resumes first.
Schedules == {"unsuspended", "classification", "extraction"}

\* _execute_parallel_steps: the defaults of the switched-off stages, then
\* gather(): the tasks start in the order handed over, each runs until it
\* suspends in the AI service or ends, the suspended ones resume under
\* the schedule `order` names, and an exception that leaves a task stays
\* in gather's result list.
ParallelSteps(c, t, o, ai_on, w, order) ==
    LET c0 == SkipDefaults(c, o, GroupStages)
        d == IF StageEnabled("duplicate_detection", o)
             THEN ExecuteDuplicateDetection(c0, t, w.duplicate).ctx
             ELSE c0
        cls == StageEnabled("classification", o)
        ext == StageEnabled("extraction", o)
        early == cls /\ (~ClassificationSuspends(ai_on) \/ order = "unsuspended")
        k1 == IF early THEN RunClassification(d, t, ai_on, w).ctx ELSE d
        category == CategoryOf(k1)
        late == cls /\ ~early
        ext_first == late /\ (~ExtractionSuspends(ai_on, w) \/ order = "extraction")
        k2 == IF late /\ ~ext_first
              THEN RunClassification(k1, t, ai_on, w).ctx ELSE k1
        e == IF ext THEN RunExtraction(k2, t, ai_on, w, category).ctx ELSE k2
        k3 == IF late /\ ext_first
              THEN RunClassification(e, t, ai_on, w).ctx ELSE e
    IN Ran(k3, NoExc, {})

\* execute() from the first exception that reaches its try block
Caught(c, exc) ==
    IF ExecuteCatches(exc)
    THEN BuildErrorResponse(c, ExecuteErrorMessage(exc), 0).response
    ELSE [returned |-> "exception", exc |-> exc]

\* execute(ticket, options) on an orchestrator built with enable_ai = ai_on
Execute(t, o, ai_on, w, order) ==
    LET v == ExecuteValidation(NewContext, t, w.validator)
        g == IF o.enable_parallel
             THEN ParallelSteps(v, t, o, ai_on, w, order)
             ELSE SequentialSteps(v, t, o, ai_on, w)
        r == IF StageEnabled("response_generation", o)
             THEN RunResponseGeneration(g.ctx, t, o, ai_on, w)
             ELSE Ran(g.ctx, NoExc, {})
        x == IF StageEnabled("routing", o)
             THEN ExecuteRouting(r.ctx, t, w.route, w.route_fallback)
             ELSE Ran(r.ctx, NoExc, {})
    IN IF ValidationFailed(v)
       THEN BuildErrorResponse(v, "Validation failed", 0).response
       ELSE IF g.exc # NoExc THEN Caught(g.ctx, g.exc)
       ELSE IF r.exc # NoExc THEN Caught(r.ctx, r.exc)
       ELSE IF x.exc # NoExc THEN Caught(x.ctx, x.exc)
       ELSE BuildSuccessResponse(x.ctx, 0)

\* The options of a pair of runs: enable_parallel is set by each run, and
\* one tone is enough, both modes handing it on to the generator alike.
ModesOptions ==
    { o \in WorkflowOptions : ~o.enable_parallel /\ o.response_tone = "formal" }

\* One valid ticket, one set of options and one collaborator behaviour, to
\* be run under both settings of enable_parallel.
ModesInit ==
    /\ ticket \in { t \in Tickets : Validate(t).is_valid }
    /\ options \in ModesOptions
    /\ enable_ai \in BOOLEAN
    /\ ctx = NewContext
    /\ pc = "direct"
    /\ task = [s \in Stages |-> "idle"]
    /\ pending = [s \in Stages |-> None]
    /\ escaped = [s \in Stages |-> NoExc]
    /\ calls = {}
    /\ ai_failed = {}
    /\ elapsed = 0
    /\ result = None
    /\ router = None
    /\ unit \in [op : {"modes"}, world : Worlds,
                  sequential : {None}, parallel : {None}]

\* execute() with enable_parallel == false
ExecuteSequential ==
    /\ pc = "direct"
    /\ unit # None
    /\ unit.op = "modes"
    /\ unit.sequential = None
    /\ \E order \in Schedules :
         unit' = [unit EXCEPT !.sequential =
                    Execute(ticket, [options EXCEPT !.enable_parallel = FALSE],
                            enable_ai, unit.world, order)]
    /\ UNCHANGED <<ticket, options, enable_ai, ctx, pc, task, pending,
                   escaped, calls, ai_failed, elapsed, result, router>>

\* execute() with enable_parallel == true
ExecuteParallel ==
    /\ pc = "direct"
    /\ unit # None
    /\ unit.op = "modes"
    /\ unit.parallel = None
    /\ \E order \in Schedules :
         unit' = [unit EXCEPT !.parallel =
                    Execute(ticket, [options EXCEPT !.enable_parallel = TRUE],
                            enable_ai, unit.world, order)]
    /\ UNCHANGED <<ticket, options, enable_ai, ctx, pc, task, pending,
                   escaped, calls, ai_failed, elapsed, result, router>>

ModesNext ==
    \/ ExecuteSequential
    \/ ExecuteParallel

ModesSpec == ModesInit /\ [][ModesNext]_vars

TypeOK ==
    /\ pc \in {"start", "group", "gather", "seq", "respond", "route",
               "assemble", "returned"}
    /\ \A s \in Stages :
         task[s] \in {"idle", "skipped", "ready", "await_ai", "done", "raised"}
    /\ elapsed \in 0..(WORKFLOW_TIMEOUT_SECONDS + TickSeconds)

(***************************************************************************)
(* Properties.                                                             *)
(***************************************************************************)
Returned == pc = "returned"
ReturnedResponse == Returned /\ result.returned = "response"

StepsNamed(steps, name) == { i \in 1..Len(steps) : steps[i].step_name = name }
HasFailedStep(steps) == \E i \in 1..Len(steps) : steps[i].status = "failed"
ValidationStepFailed(steps) ==
    \E i \in StepsNamed(steps, "validation") : steps[i].status = "failed"
ValidationStepCompleted(steps) ==
    \E i \in StepsNamed(steps, "validation") : steps[i].status = "completed"

\* C1: whatever fails in the stages or in the AI service, their rule-based
\* fallback calls included, execute() ends by returning a WorkflowResponse
\* and never hands an exception to its caller.
C1_ExecuteAlwaysReturnsResponse ==
    /\ [](result # None => result.returned = "response")
    /\ <>Returned

\* C1 witness: execute() returned a response although a stage's fallback
\* call failed and the exception reached execute().
C1_Witness ==
    /\ ReturnedResponse
    /\ \E s \in Stages : task[s] = "raised" /\ escaped[s] \in StageErrors
    /\ "error" \in StepNames(result.workflow_steps)

\* C2: when validation fails, execute() returns an error response and no
\* other stage was invoked or has a step in workflow_steps.
C2_ValidationFailureShortCircuits ==
    ValidationStepFailed(ctx.steps) =>
        /\ ReturnedResponse
        /\ StepNames(result.workflow_steps) \cap Stages = {}
        /\ \A c \in calls : c.stage \notin Stages
        /\ \A s \in Stages : task[s] = "idle"

\* C2 witness: an invalid ticket was answered with the error response.
C2_Witness ==
    /\ ReturnedResponse
    /\ ~Validate(ticket).is_valid
    /\ ValidationStepFailed(result.workflow_steps)
    /\ "error" \in StepNames(result.workflow_steps)

\* C3: a ticket whose subject or body is empty or whitespace-only is
\* answered with response_draft null and at least one failed step.
C3_EmptyTicketGetsNoDraft ==
    (Returned /\ (Strip(ticket.subject) = <<>> \/ Strip(ticket.body) = <<>>))
        => /\ result.returned = "response"
           /\ result.response_draft = None
           /\ HasFailedStep(result.workflow_steps)

\* C3 witness: a whitespace-only subject was answered that way.
C3_Witness ==
    /\ ReturnedResponse
    /\ ticket.subject # <<>>
    /\ Strip(ticket.subject) = <<>>
    /\ result.response_draft = None
    /\ HasFailedStep(result.workflow_steps)

\* C4, as claimed: when the AI service raises during classification, the
\* workflow completes with a rule-based classification and the
\* "classification" step is completed, has fallback_used set and carries
\* the AI error's text.
C4_AIFailureFlaggedOnStep ==
    (Returned /\ "classification" \in ai_failed
     /\ ctx.classification # None)
        => /\ result.returned = "response"
           /\ result.classification.reasoning = "rules"
           /\ \E i \in StepsNamed(result.workflow_steps, "classification") :
                /\ result.workflow_steps[i].status = "completed"
                /\ result.workflow_steps[i].fallback_used
                /\ result.workflow_steps[i].error \in
                       { e.msg : e \in AIErrors }

\* Is the returned response the one _build_error_response assembles?
ErrorResponse ==
    ReturnedResponse /\ "error" \in StepNames(result.workflow_steps)

\* C5, as claimed: for a valid ticket that passed validation, the returned
\* workflow_steps holds a "validation" entry and one entry for every stage
\* the options did not skip or disable.
C5_EveryEnabledStageHasStep ==
    (Returned /\ Validate(ticket).is_valid
     /\ ValidationStepCompleted(ctx.steps))
        => /\ result.returned = "response"
           /\ StepsNamed(result.workflow_steps, "validation") # {}
           /\ \A s \in Stages :
                StageEnabled(s, options) =>
                    Cardinality(StepsNamed(result.workflow_steps, s)) = 1

\* C6, as claimed: every stage call that has ended, by returning or by
\* raising, left exactly one step of that stage's name.
C6_ExactlyOneStepPerStageCall ==
    \A s \in Stages :
        task[s] \in {"done", "raised"} =>
            Cardinality(StepsNamed(ctx.steps, s)) = 1

\* C7: response generation starts only when every launched task of the group
\* has finished, routing only when response generation has finished or was
\* skipped; so the "response_generation" and "routing" steps come after all
\* steps of the group, and "routing" after "response_generation".
C7_ResponseAndRoutingAfterGroup ==
    /\ (task["response_generation"] # "idle"
        \/ pc \in {"respond", "route", "assemble"})
          => \A s \in GroupSet : task[s] \in {"skipped", "done", "raised"}
    /\ (task["routing"] # "idle" \/ pc \in {"route", "assemble"})
          => task["response_generation"] \in {"skipped", "done"}
    /\ \A i \in StepsNamed(ctx.steps, "response_generation")
            \cup StepsNamed(ctx.steps, "routing") :
         \A j \in 1..Len(ctx.steps) :
            ctx.steps[j].step_name \in GroupSet => j < i
    /\ \A i \in StepsNamed(ctx.steps, "routing") :
         \A j \in StepsNamed(ctx.steps, "response_generation") : j < i

\* C7 witness: a parallel run with the AI service in which the three tasks
\* of the group, response generation and routing all left their steps.
C7_Witness ==
    /\ ReturnedResponse
    /\ options.enable_parallel
    /\ enable_ai
    /\ Stages \subseteq StepNames(result.workflow_steps)

\* C8: in parallel mode, when a task of the group has raised, the group is
\* left only after every other launched task has ended, and each of them that
\* returned has set its context field and appended its own step.
C8_SiblingsCompleteDespiteException ==
    \A r \in GroupSet :
        (options.enable_parallel /\ task[r] = "raised"
         /\ pc \in {"respond", "route", "assemble", "returned"})
            => \A s \in GroupSet \ {r} :
                 StageEnabled(s, options) =>
                    /\ task[s] \in {"done", "raised"}
                    /\ task[s] = "done" =>
                          /\ Cardinality(StepsNamed(ctx.steps, s)) = 1
                          /\ s = "classification" => ctx.classification # None
                          /\ s = "extraction" => ctx.extraction # None

\* C8 witness: the classification task raised, the extraction task waited
\* for the AI service meanwhile and still stored its result and its step.
C8_Witness ==
    /\ options.enable_parallel
    /\ pc = "respond"
    /\ task["classification"] = "raised"
    /\ task["extraction"] = "done"
    /\ enable_ai
    /\ ctx.extraction # None
    /\ StepsNamed(ctx.steps, "extraction") # {}
    /\ StepsNamed(ctx.steps, "classification") = {}

\* C9, as claimed: an invocation that took longer than the workflow-wide
\* deadline ends in an error response whose "error" step carries the
\* timeout message.
C9_DeadlineYieldsTimeoutResponse ==
    (Returned /\ elapsed > WORKFLOW_TIMEOUT_SECONDS)
        => /\ result.returned = "response"
           /\ \E i \in StepsNamed(result.workflow_steps, "error") :
                result.workflow_steps[i].error = "Workflow execution timeout"

WrittenBy(s) ==
    CASE s = "classification" -> {"classification"}
      [] s = "extraction" -> {"extraction"}
      [] s = "duplicate_detection" -> {"duplicate_of", "similarity_score"}

\* C11: while the parallel group runs, a step of the classification task
\* changes no context field but classification, a step of the extraction
\* task none but extraction, a step of the duplicate-detection task none but
\* duplicate_of and similarity_score; each appends only steps of its own
\* name, and the fields two tasks may write are disjoint.
C11_TasksWriteOwnFields ==
    [][\A s \in GroupSet :
          (pc = "gather" /\ task'[s] # task[s]) =>
              /\ \A f \in (DOMAIN ctx) \ ({"steps"} \cup WrittenBy(s)) :
                    ctx'[f] = ctx[f]
              /\ \A i \in (Len(ctx.steps) + 1)..Len(ctx'.steps) :
                    ctx'.steps[i].step_name = s
              /\ \A r \in GroupSet \ {s} :
                    WrittenBy(r) \cap WrittenBy(s) = {}]_vars

\* C11 witness: in the parallel group the classification task has stored
\* its result while the extraction task is still waiting for the AI service.
C11_Witness ==
    /\ pc = "gather"
    /\ task["classification"] = "done"
    /\ task["extraction"] = "await_ai"
    /\ task["duplicate_detection"] = "done"
    /\ ctx.classification # None
    /\ ctx.extraction = None

IsPrefix(a, b) == Len(a) <= Len(b) /\ SubSeq(b, 1, Len(a)) = a

\* C12: every step of the invocation leaves the steps list a prefix of what
\* it becomes, so records are only ever appended at the end, and the list is
\* a prefix of the workflow_steps of the response once there is one.
C12_StepsAppendOnly ==
    [][/\ IsPrefix(ctx.steps, ctx'.steps)
       /\ result' # None =>
            (result'.returned = "response"
             => IsPrefix(ctx'.steps, result'.workflow_steps))]_vars

\* C12 witness: a response whose workflow_steps holds the validation step
\* and the steps of all five stages, as the context accumulated them.
C12_Witness ==
    /\ ReturnedResponse
    /\ Len(result.workflow_steps) >= 6
    /\ result.workflow_steps = ctx.steps
    /\ result.workflow_steps[1].step_name = "validation"

\* The order in which execute() reaches the steps.
StepOrder ==
    <<"validation", "duplicate_detection", "classification", "extraction",
      "response_generation", "routing", "error">>

\* C13: with enable_parallel false, a stage of the group starts only when
\* the stages before it have returned or were skipped, and the step names
\* in the steps list follow the order validation, duplicate_detection,
\* classification, extraction, response_generation, routing.
C13_SequentialOrder ==
    ~options.enable_parallel =>
        /\ \A s \in GroupSet :
             task[s] # "idle" =>
                \A b \in Before(s) : task[b] \in {"skipped", "done"}
        /\ Cardinality({ s \in GroupSet : task[s] = "await_ai" }) <= 1
        /\ \A i, j \in 1..Len(ctx.steps) :
             i < j => IndexIn(StepOrder, ctx.steps[i].step_name)
                      < IndexIn(StepOrder, ctx.steps[j].step_name)

\* C13 witness: a sequential run with the AI service whose response lists
\* the six steps in that order.
C13_Witness ==
    /\ ReturnedResponse
    /\ ~options.enable_parallel
    /\ enable_ai
    /\ [i \in 1..Len(result.workflow_steps) |->
          result.workflow_steps[i].step_name]
       = SubSeq(StepOrder, 1, 6)

\* The response's workflow_steps holds a "routing" step that completed
\* without the fallback call.
RoutedWithoutFallback ==
    \E i \in StepsNamed(result.workflow_steps, "routing") :
        /\ result.workflow_steps[i].status = "completed"
        /\ ~result.workflow_steps[i].fallback_used

\* C14, as claimed: a response with critical severity and routing not
\* skipped is routed to the escalation team with urgent priority.
C14_CriticalAlwaysEscalated ==
    (ReturnedResponse /\ ~options.skip_routing
     /\ result.classification.severity = "critical")
        => /\ result.routing.team = "escalation_team"
           /\ result.routing.priority = "urgent"

\* C14, amended: a response with critical severity whose routing step
\* completed without the fallback call is routed to the escalation team
\* with urgent priority.
C14_CriticalEscalatedUnlessFallback ==
    (ReturnedResponse /\ ~options.skip_routing
     /\ result.classification.severity = "critical"
     /\ RoutedWithoutFallback)
        => /\ result.routing.team = "escalation_team"
           /\ result.routing.priority = "urgent"

\* C14 witness: a critical classification by the rules was routed by the
\* primary route() call to the escalation team.
C14_Witness ==
    /\ ReturnedResponse
    /\ ~options.skip_routing
    /\ result.classification.severity = "critical"
    /\ RoutedWithoutFallback
    /\ result.routing.team = "escalation_team"
    /\ result.routing.priority = "urgent"

\* The classification the orchestrator writes for a skipped classifier.
SkippedClassification ==
    [category |-> "general", category_confidence |-> 100,
     severity |-> "medium", severity_confidence |-> 100,
     reasoning |-> "Classification skipped"]

\* C15, as claimed: with skip_classification the classifier is never called
\* and every response carries the synthetic default classification.
C15_SkippedClassificationDefault ==
    options.skip_classification =>
        /\ \A c \in calls : c.stage # "classification"
        /\ ReturnedResponse => result.classification = SkippedClassification

\* C15, amended: with skip_classification the classifier is never called,
\* and every response to a ticket that passed validation carries the
\* synthetic default classification, in parallel and in sequential mode.
C15_SkippedClassificationDefaultIfValid ==
    options.skip_classification =>
        /\ \A c \in calls : c.stage # "classification"
        /\ (ReturnedResponse
            /\ ValidationStepCompleted(result.workflow_steps))
              => result.classification = SkippedClassification

\* C15 witness: a sequential run with skip_classification that called the
\* other stages and answered with the synthetic default.
C15_Witness ==
    /\ ReturnedResponse
    /\ options.skip_classification
    /\ ~options.enable_parallel
    /\ ValidationStepCompleted(result.workflow_steps)
    /\ \E c \in calls : c.stage = "extraction"
    /\ result.classification = SkippedClassification

\* The stages the options switch off.
SwitchedOff ==
    { s \in Stages :
        \/ s = "duplicate_detection" /\ ~options.enable_duplicate_detection
        \/ s = "classification" /\ options.skip_classification
        \/ s = "extraction" /\ options.skip_extraction
        \/ s = "response_generation" /\ options.skip_response
        \/ s = "routing" /\ options.skip_routing }

\* C16: a stage the options switch off is never started, its collaborator
\* is never called and no step of its name is recorded or returned; with
\* skip_response the response's response_draft is null.
C16_SwitchedOffStageLeavesNoTrace ==
    /\ \A s \in SwitchedOff :
         /\ task[s] \in {"idle", "skipped"}
         /\ \A c \in calls : c.stage # s
         /\ s \notin StepNames(ctx.steps)
         /\ ReturnedResponse => s \notin StepNames(result.workflow_steps)
    /\ (ReturnedResponse /\ options.skip_response)
          => result.response_draft = None

\* C16 witness: a run with response generation and duplicate detection
\* switched off in which classification, extraction and routing ran.
C16_Witness ==
    /\ ReturnedResponse
    /\ SwitchedOff = {"response_generation", "duplicate_detection"}
    /\ Stages \ SwitchedOff \subseteq StepNames(result.workflow_steps)
    /\ "response_generation" \notin StepNames(result.workflow_steps)
    /\ result.response_draft = None

\* route() has returned in the direct call.
Routed == router # None /\ router.decision # None

\* C17: for every category and every extracted-fields map, route() with
\* severity "critical" returns the escalation team with urgent priority,
\* confidence 0.95 and technical_support as the only alternative; the
\* decision is the same record whatever the category and the fields.
C17_CriticalRoutesToEscalation ==
    (Routed /\ router.severity = "critical") =>
        router.decision =
            [team |-> "escalation_team",
             priority |-> "urgent",
             reasoning |-> "Critical severity requires escalation team",
             alternative_teams |-> <<"technical_support">>,
             confidence |-> 95]

\* C17 witness: a critical billing ticket with four extracted fields was
\* routed to the escalation team.
C17_Witness ==
    /\ Routed
    /\ router.severity = "critical"
    /\ router.category = "billing"
    /\ Len(router.extracted_fields) = 4
    /\ router.decision.team = "escalation_team"

\* The primary team is not among the alternatives, which are two at most.
AlternativesExcludePrimary(d) ==
    /\ \A i \in 1..Len(d.alternative_teams) : d.alternative_teams[i] # d.team
    /\ Len(d.alternative_teams) <= 2

\* C18: in every decision route() returns, in every decision a routing
\* stage stores in the context and in the routing of every response, the
\* team is not among alternative_teams and alternative_teams has at most two
\* elements.
C18_AlternativesExcludePrimary ==
    /\ Routed => AlternativesExcludePrimary(router.decision)
    /\ ctx.routing # None => AlternativesExcludePrimary(ctx.routing)
    /\ result # None =>
          (result.returned = "response"
           => AlternativesExcludePrimary(result.routing))

\* C18 witness: route() sent a non-critical account ticket to
\* account_management and offered technical_support as the alternative.
C18_Witness ==
    /\ Routed
    /\ router.severity = "low"
    /\ router.category = "account"
    /\ router.decision.team = "account_management"
    /\ router.decision.alternative_teams = <<"technical_support">>

\* The severity table of the claim, as positions in [low, normal, high,
\* urgent].
TablePosition(severity) ==
    CASE severity = "high" -> 3
      [] severity = "medium" -> 2
      [] severity = "low" -> 1

C20_PriorityFollowsSeverityTable ==
    (Routed /\ router.severity \in {"high", "medium", "low"}) =>
        router.decision.priority
        = <<"low", "normal", "high", "urgent">>[TablePosition(router.severity)]

\* C21: when classify() uses the AI service, it returns the service's
\* result as it is if and only if the call returned and the result's
\* category_confidence reaches the threshold, whatever its
\* severity_confidence; otherwise, and without AI, it returns what
\* _classify_with_rules gives.
C21_AIResultGatedOnCategoryConfidence ==
    Called("classify") =>
        LET passes == /\ unit.use_ai
                      /\ unit.ai_service
                      /\ unit.ai.exc = NoExc
                      /\ unit.ai.value.category_confidence
                            >= AI_CONFIDENCE_THRESHOLD
        IN /\ passes <=> unit.returned = unit.ai
           /\ ~passes <=> unit.returned = unit.rules

\* C21 witness: an AI result whose category_confidence is exactly the
\* threshold and whose severity_confidence is 0 was returned unchanged.
C21_Witness ==
    /\ Called("classify")
    /\ unit.use_ai
    /\ unit.ai_service
    /\ unit.ai.exc = NoExc
    /\ unit.ai.value.category_confidence = AI_CONFIDENCE_THRESHOLD
    /\ unit.ai.value.severity_confidence = 0
    /\ unit.returned = unit.ai

\* The severities whose indicators occur in the text and whose score no
\* other severity exceeds.
TopSeverities(text) ==
    { k \in {"critical", "high", "medium", "low"} :
        /\ MatchedIndicators(k, text) # <<>>
        /\ \A j \in {"critical", "high", "medium", "low"} :
              SeverityConfidence(j, text) <= SeverityConfidence(k, text) }

\* C22, as claimed: when two or more severities tie on the highest score,
\* _match_severity returns the highest of them in the order critical >
\* high > medium > low.
C22_TieGoesToHigherSeverity ==
    (Called("match_severity")
     /\ Cardinality(TopSeverities(unit.text)) >= 2) =>
        unit.returned.severity =
            (CHOOSE k \in TopSeverities(unit.text) :
                \A j \in TopSeverities(unit.text) :
                    IndexIn(<<"critical", "high", "medium", "low">>, k)
                    <= IndexIn(<<"critical", "high", "medium", "low">>, j))

\* The elements of a sequence.
Elements(seq) == { seq[i] : i \in 1..Len(seq) }

\* C23, as claimed: after the merge, for each AI field whose name occurs
\* among the regex fields the result holds a field of that name whose
\* confidence is the highest of them; an AI field with a new name is in the
\* result; and every regex field whose name no AI field bears is in the
\* result unchanged, several regex fields of one name included.
C23_MergeKeepsOtherRegexFields ==
    Called("merge_fields") =>
        LET regex == Elements(unit.regex_fields)
            ai == Elements(unit.ai_fields)
            merged == Elements(unit.returned.fields)
        IN /\ \A f \in ai :
                f.name \in FieldNames(unit.regex_fields) =>
                    \E g \in merged :
                        /\ g.name = f.name
                        /\ g.confidence >= f.confidence
                        /\ \A r \in regex :
                              r.name = f.name => g.confidence >= r.confidence
           /\ \A f \in ai :
                f.name \notin FieldNames(unit.regex_fields) => f \in merged
           /\ \A r \in regex :
                r.name \notin FieldNames(unit.ai_fields) => r \in merged

\* The response execute() returned is the one _build_success_response
\* assembles.
SuccessResponse ==
    ReturnedResponse /\ "error" \notin StepNames(result.workflow_steps)

\* The response holds a step of that name that completed without the
\* orchestrator's fallback call.
CompletedWithoutFallback(name) ==
    \E i \in StepsNamed(result.workflow_steps, name) :
        /\ result.workflow_steps[i].status = "completed"
        /\ ~result.workflow_steps[i].fallback_used

\* C24, as claimed, for the responses whose extraction step completed
\* without fallback: in every such successful response missing_required is
\* the required-field list of the response's classification.category
\* without the names of the response's extracted fields.
C24_MissingRequiredFollowsCategory ==
    (SuccessResponse /\ CompletedWithoutFallback("extraction")) =>
        result.extracted_fields.missing_required
        = SelectSeq(CATEGORY_REQUIRED_FIELDS[result.classification.category],
                    LAMBDA f :
                        f \notin FieldNames(result.extracted_fields.fields))

\* C25: a draft generate() returns has template_used null exactly when the
\* AI service was called, returned, and the draft was built from what it
\* returned; it has template_used "{category}_template" exactly when
\* _generate_with_template produced it.
C25_TemplateUsedTellsThePath ==
    (Called("generate") /\ unit.returned.exc = NoExc) =>
        LET from_ai == /\ unit.use_ai
                       /\ unit.ai_service
                       /\ unit.reply.exc = NoExc
                       /\ unit.reply.value.kind = "dict"
        IN /\ from_ai <=> unit.returned.value.template_used = NoneStr
           /\ ~from_ai <=> unit.returned.value.template_used
                             = unit.category \o "_template"

\* C25 witness: the AI service answered a formal billing request and the
\* draft built from its answer names no template.
C25_Witness ==
    /\ Called("generate")
    /\ unit.use_ai
    /\ unit.ai_service
    /\ unit.reply.exc = NoExc
    /\ unit.reply.value.kind = "dict"
    /\ unit.category = "billing"
    /\ unit.returned.exc = NoExc
    /\ unit.returned.value.template_used = NoneStr

\* C26, as claimed: every response that carries a response_draft carries
\* one whose tone is options.response_tone, whether the AI service, the
\* template or the orchestrator's fallback call produced the draft.
C26_DraftToneIsRequestedTone ==
    (ReturnedResponse /\ result.response_draft # None) =>
        result.response_draft.tone = options.response_tone

\* C27, as claimed: the tokens_used of a step is the number of tokens that
\* step's own AI calls consumed.
C27_TokensUsedIsPerStep ==
    (unit # None /\ unit.op = "tokens") =>
        \A i \in 1..Len(unit.steps) :
            unit.steps[i].tokens_used = unit.steps[i].consumed

\* C28, as claimed: in parallel mode with classification not skipped,
\* every extract() call receives the category "general".
C28_ParallelExtractionAlwaysGeneral ==
    (options.enable_parallel /\ ~options.skip_classification) =>
        \A c \in calls : c.stage = "extraction" => c.category = "general"

\* C28, amended: in parallel mode with classification not skipped, the
\* extraction task calls extract() with the category the classification
\* task has stored if that task has finished when the extraction task
\* starts, and with "general" if it is still waiting for the AI service or
\* has raised; the fallback call passes "general".
C28_ExtractionSeesCategoryStoredSoFar ==
    [][(/\ options.enable_parallel
        /\ ~options.skip_classification
        /\ task["extraction"] = "ready"
        /\ task'["extraction"] # "ready")
       => LET stored == IF task["classification"] = "done"
                        THEN ctx.classification.category
                        ELSE "general"
              made == { c \in calls' \ calls : c.stage = "extraction" }
          IN /\ \E c \in made : c.category = stored
             /\ \A c \in made : c.category \in {stored, "general"}]_vars

\* C28 witness: a parallel run without AI in which the classification task
\* finished first and extract() was called with its category, "technical".
C28_Witness ==
    /\ options.enable_parallel
    /\ ~options.skip_classification
    /\ ~enable_ai
    /\ task["classification"] = "done"
    /\ ctx.classification.category = "technical"
    /\ \E c \in calls : c.stage = "extraction" /\ c.category = "technical"

\* C29, as claimed: once validation has stored sanitized_ticket, every call
\* of a later stage, the orchestrator's fallback calls included, receives
\* the subject and the body of sanitized_ticket.
C29_StagesReceiveSanitizedText ==
    ctx.sanitized_ticket # None =>
        \A c \in calls :
            c.stage \in Stages =>
                /\ c.subject = ctx.sanitized_ticket.subject
                /\ c.body = ctx.sanitized_ticket.body

\* Both runs of the pair are over.
BothModesReturned ==
    /\ unit # None
    /\ unit.op = "modes"
    /\ unit.sequential # None
    /\ unit.parallel # None

\* The steps of a response as (name, status, fallback_used), order dropped.
StepSet(r) ==
    { <<r.workflow_steps[i].step_name, r.workflow_steps[i].status,
        r.workflow_steps[i].fallback_used>> :
        i \in 1..Len(r.workflow_steps) }

\* C30, as claimed: for the same valid ticket, the same options apart from
\* enable_parallel and the same collaborator behaviour, the parallel and the
\* sequential run of execute() return the same classification,
\* extracted_fields, response_draft and routing, and the same set of steps
\* with the same status and fallback_used.
C30_ModesReturnSameResults ==
    BothModesReturned =>
        /\ unit.sequential.returned = "response"
        /\ unit.parallel.returned = "response"
        /\ unit.sequential.classification = unit.parallel.classification
        /\ unit.sequential.extracted_fields = unit.parallel.extracted_fields
        /\ unit.sequential.response_draft = unit.parallel.response_draft
        /\ unit.sequential.routing = unit.parallel.routing
        /\ StepSet(unit.sequential) = StepSet(unit.parallel)
====
